---- MODULE Spec2Model ----
(***************************************************************************)
(* OatWriter (src/oat_writer.cc): the two-pass layout-and-emission engine  *)
(* of the OAT container writer.  The constructor runs the layout pass      *)
(* (the InitOat functions), Write runs the emit pass.  One action per     *)
(* function of the source; the loops of InitOatCodeDexFiles and          *)
(* WriteCodeDexFiles are one step per method and one per class-def.       *)
(***************************************************************************)
EXTENDS Integers, Sequences, FiniteSets, TLC

\* ---------------------------------------------------------------------
\* Bounds of the model (sizes of the input sets)
\* ---------------------------------------------------------------------
MaxDexFiles == 2
MaxClassDefs == 2
MaxMethods == 2

\* ---------------------------------------------------------------------
\* Program constants
\* ---------------------------------------------------------------------
kPageSize == 4096
kArmAlignment == 16
kStackAlignment == 16
\* sizeof(OatHeader): magic, version, checksum, executable offset
SizeOfOatHeader == 16
\* sizeof(uint32_t): every table word and every frame word
SizeOfWord == 4
\* Adler-32 modulus and the value adler32(0, NULL, 0)
kAdlerBase == 65521
kAdlerInit == 1

NULL == "NULL"

\* ---------------------------------------------------------------------
\* Arithmetic and byte encodings
\* ---------------------------------------------------------------------
RoundUp(x, n) == ((x + n - 1) \div n) * n

\* little-endian bytes of a uint32_t / uint16_t
U32Bytes(v) == << v % 256, (v \div 256) % 256, (v \div 65536) % 256, (v \div 16777216) % 256 >>
U16Bytes(v) == << v % 256, (v \div 256) % 256 >>

RECURSIVE Flatten(_)
Flatten(ss) == IF ss = << >> THEN << >> ELSE Head(ss) \o Flatten(Tail(ss))

\* ---------------------------------------------------------------------
\* Checksum accumulator: OatHeader::UpdateChecksum (Adler-32)
\* ---------------------------------------------------------------------
\* The 32-bit value is kept as its two 16-bit halves: a (low) and b (high).
\* After bytes d[1..n]: a' = a + SUM d[k], b' = b + n*a + SUM (n-k+1)*d[k],
\* both modulo kAdlerBase; the two sums are computed by halving the range.
RECURSIVE AdlerSums(_, _, _)
AdlerSums(data, lo, hi) ==
    IF lo > hi THEN [s |-> 0, w |-> 0]
    ELSE IF lo = hi THEN [s |-> data[lo], w |-> (Len(data) - lo + 1) * data[lo]]
    ELSE LET mid == (lo + hi) \div 2
             left == AdlerSums(data, lo, mid)
             right == AdlerSums(data, mid + 1, hi)
         IN [s |-> (left.s + right.s) % kAdlerBase, w |-> (left.w + right.w) % kAdlerBase]

adler32(adler, data) ==
    LET sums == AdlerSums(data, 1, Len(data))
    IN [a |-> (adler.a + sums.s) % kAdlerBase,
        b |-> (adler.b + Len(data) * adler.a + sums.w) % kAdlerBase]

\* adler32(0L, Z_NULL, 0)
InitialChecksum == [a |-> kAdlerInit, b |-> 0]

\* little-endian bytes of the 32-bit checksum value
ChecksumBytes(adler) == U16Bytes(adler.a) \o U16Bytes(adler.b)

\* the checksum of a process that aborts in an update: the value the update
\* found, marked; nothing is computed from it any more
Aborted(checksum) == [a |-> checksum.a, b |-> checksum.b, aborted |-> TRUE]
IsAborted(checksum) == "aborted" \in DOMAIN checksum
ChecksumAtAbort(checksum) == [a |-> checksum.a, b |-> checksum.b]

\* OatHeader::UpdateChecksum(data, length) with a valid pointer
UpdateChecksum(checksum, data) ==
    IF IsAborted(checksum) THEN checksum ELSE adler32(checksum, data)

\* what oat_header.UpdateChecksum(&v[0], 0) does for an empty std::vector v, the
\* operator[] being undefined behaviour there: the library's bounds assertion
\* aborts the process, or &v[0] is v's data pointer. That pointer is valid for
\* a vector that owns storage, and the checksum stays; it is NULL for a vector
\* that never allocated, and the checksum stays or becomes
\* adler32(x, Z_NULL, 0), as the header treats an update from NULL
EmptyUpdateOutcomes == {"unchanged", "reset", "abort"}

\* ---------------------------------------------------------------------
\* The Compiler collaborator: the buffers it owns and what it returns
\* ---------------------------------------------------------------------
\* the instruction sets for which DCHECK_ALIGNED(offset, kArmAlignment) holds
kArm == "kArm"
kThumb2 == "kThumb2"
InstructionSets == {kArm, kThumb2}

\* std::vector<uint8_t> objects (method code and invoke stubs), by identity
CodeVectors == [B0 |-> << >>,
                B1 |-> << 1, 2, 3, 4 >>,
                B2 |-> << 5, 6, 7, 8, 9, 10 >>]
\* std::vector<uint32_t> objects (mapping tables), by identity
MappingTables == [M0 |-> << >>, M1 |-> << 260 >>]
\* std::vector<uint16_t> objects (vmap tables), by identity
VmapTables == [V0 |-> << >>, V1 |-> << 515 >>]

CodeBytes(id) == CodeVectors[id]
MappingBytes(id) == Flatten([j \in 1..Len(MappingTables[id]) |-> U32Bytes(MappingTables[id][j])])
VmapBytes(id) == Flatten([j \in 1..Len(VmapTables[id]) |-> U16Bytes(VmapTables[id][j])])

\* the vectors of the compiler that are empty: each may own storage or not
EmptyVectors == {"B0", "M0", "V0"}

\* CompiledMethod objects the compiler can return: two with code that share
\* their tables, and one whose code and tables are all empty
CompiledMethods ==
    [CA |-> [code |-> "B1", mapping_table |-> "M1", vmap_table |-> "V1",
             frame_size_in_bytes |-> 48, core_spill_mask |-> 16608, fp_spill_mask |-> 0],
     CB |-> [code |-> "B2", mapping_table |-> "M1", vmap_table |-> "V1",
             frame_size_in_bytes |-> 32, core_spill_mask |-> 16384, fp_spill_mask |-> 3],
     CC |-> [code |-> "B0", mapping_table |-> "M0", vmap_table |-> "V0",
             frame_size_in_bytes |-> 64, core_spill_mask |-> 0, fp_spill_mask |-> 0]]

\* what GetCompiledMethod / FindInvokeStub can return for one method
CompiledMethodChoices == {NULL, "CA", "CC"}
InvokeStubChoices == {NULL, "B0", "B1"}
MethodChoices == [compiled_method : CompiledMethodChoices, invoke_stub : InvokeStubChoices]

\* CompiledMethod::AlignCode(offset, instruction_set)
AlignCodeFor(off, isa) == RoundUp(off, kArmAlignment)

\* CompiledMethod::CodeDelta()
CodeDeltaFor(isa) == IF isa = kThumb2 THEN 1 ELSE 0

\* ---------------------------------------------------------------------
\* The InputReader collaborator: dex files, class-defs and their methods
\* ---------------------------------------------------------------------
RECURSIVE SumSeq(_)
SumSeq(ns) == IF ns = << >> THEN 0 ELSE Head(ns) + SumSeq(Tail(ns))

\* shape of a class-def: no class data, or nd direct and nv virtual methods
ClassShapes(m) ==
    {[has_class_data |-> FALSE, nd |-> 0, nv |-> 0]} \cup
    {[has_class_data |-> TRUE, nd |-> a, nv |-> b] : a \in 0..m, b \in 0..m}
ShapeMethods(d) == SumSeq([c \in 1..Len(d) |-> d[c].nd + d[c].nv])
ShapeTotalMethods(s) == SumSeq([n \in 1..Len(s) |-> ShapeMethods(s[n])])

\* the shapes of a dex file: at most c class-defs with at most m methods in all
RECURSIVE DexShapes(_, _)
DexShapes(c, m) ==
    IF c = 0 THEN {<< >>}
    ELSE {<< >>} \cup
         UNION {{<< cs >> \o rest : rest \in DexShapes(c - 1, m - (cs.nd + cs.nv))} :
                  cs \in {x \in ClassShapes(m) : x.nd + x.nv <= m}}

\* the shapes of the inputs: at most d dex files with at most c class-defs and
\* at most m methods in all
RECURSIVE InputShapes(_, _, _)
InputShapes(d, c, m) ==
    IF d = 0 THEN {<< >>}
    ELSE {<< >>} \cup
         UNION {{<< dex >> \o rest : rest \in InputShapes(d - 1, c - Len(dex), m - ShapeMethods(dex))} :
                  dex \in DexShapes(c, m)}

Shapes == InputShapes(MaxDexFiles, MaxClassDefs, MaxMethods)

\* DexFile::GetLocation() and DexFile::GetHeader().checksum_ of the i-th input
DexLocation(i) == [j \in 1..i |-> 96 + j]
DexChecksum(i) == 1000 * i

\* the dex files of shape s whose methods, in iteration order, are f[1], f[2], ...
BuildDexFiles(s, f) ==
    [n \in 1..Len(s) |->
       [location |-> DexLocation(n),
        checksum |-> DexChecksum(n),
        class_defs |->
          [c \in 1..Len(s[n]) |->
             LET base == SumSeq([j \in 1..(n - 1) |-> ShapeMethods(s[j])])
                         + SumSeq([k \in 1..(c - 1) |-> s[n][k].nd + s[n][k].nv])
             IN [has_class_data |-> s[n][c].has_class_data,
                 direct_methods |-> [k \in 1..s[n][c].nd |-> f[base + k].direct],
                 virtual_methods |-> [k \in 1..s[n][c].nv |-> f[base + s[n][c].nd + k].virtual]]]]]

\* compiled direct methods (two, taking turns) and an abstract virtual method,
\* all with the same shorty
PlainDirect == [compiled_method |-> "CB", invoke_stub |-> "B1"]
OtherDirect == [compiled_method |-> "CA", invoke_stub |-> "B1"]
PlainVirtual == [compiled_method |-> NULL, invoke_stub |-> "B1"]
PlainMethods(s) ==
    [k \in 1..ShapeTotalMethods(s) |->
       [direct |-> IF k % 2 = 1 THEN PlainDirect ELSE OtherDirect, virtual |-> PlainVirtual]]

\* every method compiled to the same CompiledMethod, so
\* that methods of different class-defs and of different dex files have the
\* same code buffer, the same tables and the same invoke stub
SharedMethods(s) ==
    [k \in 1..ShapeTotalMethods(s) |-> [direct |-> OtherDirect, virtual |-> OtherDirect]]

\* a single dex file with a single class-def that has class data
IsFlatShape(s) == Len(s) = 1 /\ Len(s[1]) = 1 /\ s[1][1].has_class_data
\* no class-def has virtual methods
IsDirectShape(s) == \A n \in 1..Len(s) : \A c \in 1..Len(s[n]) : s[n][c].nv = 0
\* two class-defs at least, of one dex file or of several, and direct methods
\* in every class-def
IsSpreadShape(s) ==
    /\ IsDirectShape(s)
    /\ SumSeq([n \in 1..Len(s) |-> Len(s[n])]) >= 2
    /\ \A n \in 1..Len(s) : Len(s[n]) > 0 /\ \A c \in 1..Len(s[n]) : s[n][c].nd > 0

\* one dex file with one class-def of one plain method, whose location is so
\* long that the tables end one byte before, at, or one byte after a page boundary
PageEdgeInputs ==
    {<< [location |-> [j \in 1..(kPageSize - SizeOfOatHeader - 11 * SizeOfWord + d) |-> 97],
         checksum |-> DexChecksum(1),
         class_defs |-> << [has_class_data |-> TRUE,
                            direct_methods |-> << PlainDirect >>,
                            virtual_methods |-> << >>] >>] >> :
       d \in {-1, 0, 1}}

\* The input sets: the container structure varies (any number of dex files and
\* class-defs, plain methods), or the split into direct and virtual methods
\* varies (one class-def, plain methods), or the same buffers come back for
\* methods of different class-defs and of different dex files (shared methods,
\* two class-defs at least with direct methods), or what the compiler returns varies
\* (one class-def, any choice for each of its direct methods), or the tables
\* end around a page boundary.
DexFileInputs ==
    {BuildDexFiles(s, PlainMethods(s)) : s \in {t \in Shapes : IsDirectShape(t) \/ IsFlatShape(t)}}
    \cup
    {BuildDexFiles(s, SharedMethods(s)) : s \in {t \in Shapes : IsSpreadShape(t)}}
    \cup
    UNION {{BuildDexFiles(s, [k \in 1..ShapeTotalMethods(s) |-> [direct |-> f[k], virtual |-> f[k]]]) :
              f \in [1..ShapeTotalMethods(s) -> MethodChoices]} :
             s \in {t \in Shapes : IsFlatShape(t) /\ IsDirectShape(t)}}
    \cup PageEdgeInputs

\* the methods with the virtual ones ahead of the direct ones
VirtualsFirst(class_def) == class_def.virtual_methods \o class_def.direct_methods

\* ClassDataItemIterator: NumDirectMethods() + NumVirtualMethods(), and the
\* methods in iterator order (directs, then virtuals)
NumMethods(class_def) == Len(class_def.direct_methods) + Len(class_def.virtual_methods)
MethodsInOrder(class_def) == class_def.direct_methods \o class_def.virtual_methods

\* the vectors the compiler returns for a method, and the empty ones among the
\* vectors of all the methods of the inputs
VectorsOf(method) ==
    (IF method.compiled_method = NULL THEN {}
     ELSE {CompiledMethods[method.compiled_method].code,
           CompiledMethods[method.compiled_method].mapping_table,
           CompiledMethods[method.compiled_method].vmap_table})
    \cup (IF method.invoke_stub = NULL THEN {} ELSE {method.invoke_stub})
EmptyVectorsOf(dex_files) ==
    EmptyVectors \cap
    UNION {UNION {UNION {VectorsOf(MethodsInOrder(dex_files[n].class_defs[c])[k]) :
                           k \in 1..NumMethods(dex_files[n].class_defs[c])} :
                    c \in DOMAIN dex_files[n].class_defs} :
             n \in DOMAIN dex_files}

\* ---------------------------------------------------------------------
\* State
\* ---------------------------------------------------------------------
VARIABLES
    dex_files_,                        \* the inputs (*dex_files_)
    instruction_set,                   \* compiler_->GetInstructionSet()
    empty_update,                      \* UpdateChecksum(&v[0], 0), v never allocated
    pc,                                \* the function being executed
    offset,                            \* the constructor's layout cursor
    oat_header_,                       \* [checksum, executable_offset]
    oat_dex_files_,                    \* per input: [location, checksum, classes_offset]
    oat_classes_,                      \* per input: methods_offsets_
    oat_methods_,                      \* per class-def (oat_class_index): method_offsets_
    executable_offset_padding_length_,
    code_offsets_,                     \* dedup map of code and invoke stubs
    mapping_table_offsets_,            \* dedup map of mapping tables
    vmap_table_offsets_,               \* dedup map of vmap tables
    i,                                 \* loop index over the inputs
    class_def_index,                   \* loop index over the class-defs of input i
    oat_class_index,                   \* running index over all class-defs
    class_def_method_index,            \* methods of the current class-def done
    file_pos,                          \* lseek(fd, 0, SEEK_CUR)
    file_writes,                       \* the WriteFully calls that succeeded, in order
    code_offset,                       \* the emit pass's tracked offset
    result,                            \* what Write returned
    dchecks,                           \* whether every DCHECK of the emit pass held
    emit_log,                          \* history: the dedup steps of the emit pass, in order
    io_failed                          \* history: a write or seek of the emit pass failed

layout_vars == << offset, oat_header_, oat_dex_files_, oat_classes_, oat_methods_,
                  executable_offset_padding_length_, code_offsets_,
                  mapping_table_offsets_, vmap_table_offsets_ >>
loop_vars == << i, class_def_index, oat_class_index, class_def_method_index >>
file_vars == << file_pos, file_writes, code_offset, result, dchecks, emit_log, io_failed >>
input_vars == << dex_files_, instruction_set, empty_update >>
vars == << input_vars, pc, layout_vars, loop_vars, file_vars >>

\* the inputs for which the constructor makes an update from an empty vector:
\* an empty class table, an empty methods table or an empty vector of the
\* compiler. For the others the build's outcome of such an update shows nowhere
HasEmptyUpdate(dex_files) ==
    \/ EmptyVectorsOf(dex_files) # {}
    \/ \E n \in DOMAIN dex_files :
          \/ dex_files[n].class_defs = << >>
          \/ \E c \in DOMAIN dex_files[n].class_defs :
                \/ ~dex_files[n].class_defs[c].has_class_data
                \/ NumMethods(dex_files[n].class_defs[c]) = 0

EmptyMap == << >>

\* OatMethodOffsets()
ZeroMethodOffsets ==
    [code_offset |-> 0, frame_size_in_bytes |-> 0, core_spill_mask |-> 0,
     fp_spill_mask |-> 0, mapping_table_offset |-> 0, vmap_table_offset |-> 0,
     invoke_stub_offset |-> 0]

Init ==
    /\ dex_files_ \in DexFileInputs
    /\ instruction_set \in InstructionSets
    /\ empty_update \in IF HasEmptyUpdate(dex_files_) THEN EmptyUpdateOutcomes
                        ELSE {"unchanged"}
    /\ pc = "InitOatHeader"
    /\ offset = 0
    /\ oat_header_ = [checksum |-> [a |-> 0, b |-> 0], executable_offset |-> 0]
    /\ oat_dex_files_ = << >>
    /\ oat_classes_ = << >>
    /\ oat_methods_ = << >>
    /\ executable_offset_padding_length_ = 0
    /\ code_offsets_ = EmptyMap
    /\ mapping_table_offsets_ = EmptyMap
    /\ vmap_table_offsets_ = EmptyMap
    /\ i = 1
    /\ class_def_index = 1
    /\ oat_class_index = 1
    /\ class_def_method_index = 0
    /\ file_pos = 0
    /\ file_writes = << >>
    /\ code_offset = 0
    /\ result = "none"
    /\ dchecks = TRUE
    /\ emit_log = << >>
    /\ io_failed = FALSE

\* ---------------------------------------------------------------------
\* The records and their sizes, bytes and checksums
\* ---------------------------------------------------------------------
\* OatDexFile::SizeOf
OatDexFileSizeOf(d) == SizeOfWord + Len(d.location) + SizeOfWord + SizeOfWord

\* the four fields OatDexFile::UpdateChecksum feeds and OatDexFile::Write writes
OatDexFileFields(d) ==
    << U32Bytes(Len(d.location)), d.location, U32Bytes(d.checksum), U32Bytes(d.classes_offset) >>
OatDexFileBytes(d) == Flatten(OatDexFileFields(d))

\* OatClasses::SizeOf and the bytes of methods_offsets_
OatClassesSizeOf(methods_offsets) == SizeOfWord * Len(methods_offsets)
OatClassesBytes(methods_offsets) ==
    Flatten([c \in 1..Len(methods_offsets) |-> U32Bytes(methods_offsets[c])])

\* the bytes of one OatMethodOffsets record
OatMethodOffsetsBytes(mo) ==
    U32Bytes(mo.code_offset) \o U32Bytes(mo.frame_size_in_bytes)
    \o U32Bytes(mo.core_spill_mask) \o U32Bytes(mo.fp_spill_mask)
    \o U32Bytes(mo.mapping_table_offset) \o U32Bytes(mo.vmap_table_offset)
    \o U32Bytes(mo.invoke_stub_offset)

\* OatMethods::SizeOf and the bytes of method_offsets_
OatMethodsSizeOf(method_offsets) == 7 * SizeOfWord * Len(method_offsets)
OatMethodsBytes(method_offsets) ==
    Flatten([k \in 1..Len(method_offsets) |-> OatMethodOffsetsBytes(method_offsets[k])])

\* the bytes of *oat_header_
OatHeaderBytes(h) ==
    << 111, 97, 116, 10 >> \o << 48, 48, 49, 0 >>
    \o ChecksumBytes(h.checksum) \o U32Bytes(h.executable_offset)

\* successive UpdateChecksum calls, one per field
RECURSIVE UpdateChecksumFields(_, _)
UpdateChecksumFields(checksum, fields) ==
    IF fields = << >> THEN checksum
    ELSE UpdateChecksumFields(UpdateChecksum(checksum, Head(fields)), Tail(fields))

\* the outcome of an update from an empty vector: with the library's
\* assertions every one aborts; without them one from a vector that owns
\* storage leaves the checksum, one from a vector that never allocated does
\* what the header does with NULL
EmptyUpdateOutcome(owns) ==
    IF empty_update = "abort" THEN "abort"
    ELSE IF owns THEN "unchanged"
    ELSE empty_update

\* oat_header.UpdateChecksum(&v[0], size) for the bytes of a std::vector v that
\* owns storage or not
UpdateChecksumVector(checksum, owns, bytes) ==
    IF IsAborted(checksum) THEN checksum
    ELSE IF bytes # << >> THEN UpdateChecksum(checksum, bytes)
    ELSE CASE EmptyUpdateOutcome(owns) = "unchanged" -> checksum
           [] EmptyUpdateOutcome(owns) = "reset" -> InitialChecksum
           [] EmptyUpdateOutcome(owns) = "abort" -> Aborted(checksum)

\* whether an empty table owns storage: its vector is new and resized to 0,
\* which allocates nothing
EmptyTableOwnsStorage == FALSE

\* OatDexFile::UpdateChecksum, OatClasses::UpdateChecksum, OatMethods::UpdateChecksum
OatDexFileUpdateChecksum(d, checksum) == UpdateChecksumFields(checksum, OatDexFileFields(d))
OatClassesUpdateChecksum(methods_offsets, checksum) ==
    UpdateChecksumVector(checksum, EmptyTableOwnsStorage, OatClassesBytes(methods_offsets))
OatMethodsUpdateChecksum(method_offsets, checksum) ==
    UpdateChecksumVector(checksum, EmptyTableOwnsStorage, OatMethodsBytes(method_offsets))

\* ---------------------------------------------------------------------
\* Layout pass (the constructor)
\* ---------------------------------------------------------------------
InitOatHeader ==
    /\ pc = "InitOatHeader"
    /\ oat_header_' = [checksum |-> InitialChecksum, executable_offset |-> 0]
    /\ offset' = SizeOfOatHeader
    /\ pc' = "InitOatDexFiles"
    /\ UNCHANGED << input_vars, oat_dex_files_, oat_classes_, oat_methods_,
                    executable_offset_padding_length_, code_offsets_,
                    mapping_table_offsets_, vmap_table_offsets_, loop_vars, file_vars >>

\* OatDexFile::OatDexFile
NewOatDexFile(dex_file) ==
    [location |-> dex_file.location, checksum |-> dex_file.checksum, classes_offset |-> 0]

InitOatDexFiles ==
    /\ pc = "InitOatDexFiles"
    /\ oat_dex_files_' = [n \in 1..Len(dex_files_) |-> NewOatDexFile(dex_files_[n])]
    /\ offset' = offset + SumSeq([n \in 1..Len(dex_files_) |->
                                    OatDexFileSizeOf(NewOatDexFile(dex_files_[n]))])
    /\ pc' = "InitOatClasses"
    /\ UNCHANGED << input_vars, oat_header_, oat_classes_, oat_methods_,
                    executable_offset_padding_length_, code_offsets_,
                    mapping_table_offsets_, vmap_table_offsets_, loop_vars, file_vars >>

\* OatClasses::OatClasses: methods_offsets_.resize(NumClassDefs)
NewOatClasses(dex_file) == [c \in 1..Len(dex_file.class_defs) |-> 0]

\* the loop with the descriptor fed to the checksum before its classes_offset
\* is set
RECURSIVE DescriptorChecksummedEarly(_, _, _)
DescriptorChecksummedEarly(st, dex_files, n) ==
    IF n > Len(dex_files) THEN st
    ELSE LET d == [st.oat_dex_files[n] EXCEPT !.classes_offset = st.offset]
             oat_classes == NewOatClasses(dex_files[n])
         IN DescriptorChecksummedEarly(
                [offset |-> st.offset + OatClassesSizeOf(oat_classes),
                 checksum |-> OatDexFileUpdateChecksum(st.oat_dex_files[n], st.checksum),
                 oat_dex_files |-> [st.oat_dex_files EXCEPT ![n] = d],
                 oat_classes |-> Append(st.oat_classes, oat_classes)],
                dex_files, n + 1)

\* the loop of InitOatClasses from input n on; st = [offset, checksum, oat_dex_files, oat_classes]
RECURSIVE InitOatClassesLoop(_, _, _)
InitOatClassesLoop(st, dex_files, n) ==
    IF n > Len(dex_files) THEN st
    ELSE LET d == [st.oat_dex_files[n] EXCEPT !.classes_offset = st.offset]
             oat_classes == NewOatClasses(dex_files[n])
         IN InitOatClassesLoop(
                [offset |-> st.offset + OatClassesSizeOf(oat_classes),
                 checksum |-> OatDexFileUpdateChecksum(d, st.checksum),
                 oat_dex_files |-> [st.oat_dex_files EXCEPT ![n] = d],
                 oat_classes |-> Append(st.oat_classes, oat_classes)],
                dex_files, n + 1)

InitOatClasses ==
    /\ pc = "InitOatClasses"
    /\ LET st == InitOatClassesLoop([offset |-> offset, checksum |-> oat_header_.checksum,
                                     oat_dex_files |-> oat_dex_files_, oat_classes |-> << >>],
                                    dex_files_, 1)
       IN /\ offset' = st.offset
          /\ oat_header_' = [oat_header_ EXCEPT !.checksum = st.checksum]
          /\ oat_dex_files_' = st.oat_dex_files
          /\ oat_classes_' = st.oat_classes
    /\ pc' = "InitOatMethods"
    /\ UNCHANGED << input_vars, oat_methods_, executable_offset_padding_length_,
                    code_offsets_, mapping_table_offsets_, vmap_table_offsets_,
                    loop_vars, file_vars >>

\* the direct methods alone, the virtual methods left out
NumDirectMethodsOnly(class_def) ==
    IF class_def.has_class_data THEN Len(class_def.direct_methods) ELSE 0

\* num_methods of InitOatMethods: 0 for a class-def without class data
NumMethodsOfClassDef(class_def) ==
    IF class_def.has_class_data THEN NumMethods(class_def) ELSE 0

\* OatMethods::OatMethods: method_offsets_.resize(methods_count)
NewOatMethods(num_methods) == [k \in 1..num_methods |-> ZeroMethodOffsets]

\* the inner loop with methods_offsets_[c] taken after the methods table is
\* accounted for, not before
RECURSIVE MethodsOffsetsTakenLate(_, _, _, _)
MethodsOffsetsTakenLate(st, dex_files, n, c) ==
    IF c > Len(dex_files[n].class_defs) THEN st
    ELSE LET oat_methods == NewOatMethods(NumMethodsOfClassDef(dex_files[n].class_defs[c]))
         IN MethodsOffsetsTakenLate(
                [st EXCEPT !.oat_classes[n][c] = st.offset + OatMethodsSizeOf(oat_methods),
                           !.oat_methods = Append(st.oat_methods, oat_methods),
                           !.offset = st.offset + OatMethodsSizeOf(oat_methods)],
                dex_files, n, c + 1)

\* the inner loop of InitOatMethods from class-def c of input n on;
\* st = [offset, checksum, oat_classes, oat_methods]
RECURSIVE InitOatMethodsClassLoop(_, _, _, _)
InitOatMethodsClassLoop(st, dex_files, n, c) ==
    IF c > Len(dex_files[n].class_defs) THEN st
    ELSE LET oat_methods == NewOatMethods(NumMethodsOfClassDef(dex_files[n].class_defs[c]))
         IN InitOatMethodsClassLoop(
                [st EXCEPT !.oat_classes[n][c] = st.offset,
                           !.oat_methods = Append(st.oat_methods, oat_methods),
                           !.offset = st.offset + OatMethodsSizeOf(oat_methods)],
                dex_files, n, c + 1)

\* the outer loop of InitOatMethods from input n on; an update that aborts
\* ends it, with the tables of that input and of those before it laid out
RECURSIVE InitOatMethodsLoop(_, _, _)
InitOatMethodsLoop(st, dex_files, n) ==
    IF n > Len(dex_files) \/ IsAborted(st.checksum) THEN st
    ELSE LET st1 == InitOatMethodsClassLoop(st, dex_files, n, 1)
         IN InitOatMethodsLoop(
                [st1 EXCEPT !.checksum = OatClassesUpdateChecksum(st1.oat_classes[n], st1.checksum)],
                dex_files, n + 1)

InitOatMethods ==
    /\ pc = "InitOatMethods"
    /\ LET st == InitOatMethodsLoop([offset |-> offset, checksum |-> oat_header_.checksum,
                                     oat_classes |-> oat_classes_, oat_methods |-> << >>],
                                    dex_files_, 1)
       IN /\ offset' = st.offset
          /\ oat_classes_' = st.oat_classes
          /\ oat_methods_' = st.oat_methods
          /\ IF IsAborted(st.checksum)
             THEN /\ oat_header_' = [oat_header_ EXCEPT
                                       !.checksum = ChecksumAtAbort(st.checksum)]
                  /\ pc' = "aborted"
             ELSE /\ oat_header_' = [oat_header_ EXCEPT !.checksum = st.checksum]
                  /\ pc' = "InitOatCode"
    /\ UNCHANGED << input_vars, oat_dex_files_, executable_offset_padding_length_,
                    code_offsets_, mapping_table_offsets_, vmap_table_offsets_,
                    loop_vars, file_vars >>

\* the start of the page after the one old_offset lies in
StartOfNextPage(old_offset) == (old_offset \div kPageSize + 1) * kPageSize

\* offset = RoundUp(offset, kPageSize)
ExecutableOffsetFor(old_offset) == RoundUp(old_offset, kPageSize)

InitOatCode ==
    /\ pc = "InitOatCode"
    /\ offset' = ExecutableOffsetFor(offset)
    /\ oat_header_' = [oat_header_ EXCEPT !.executable_offset = offset']
    /\ executable_offset_padding_length_' = offset' - offset
    /\ pc' = "InitOatCodeDexFiles"
    /\ i' = 1
    /\ class_def_index' = 1
    /\ oat_class_index' = 1
    /\ class_def_method_index' = 0
    /\ UNCHANGED << input_vars, oat_dex_files_, oat_classes_, oat_methods_,
                    code_offsets_, mapping_table_offsets_, vmap_table_offsets_, file_vars >>


\* ---------------------------------------------------------------------
\* InitOatCodeMethod
\* ---------------------------------------------------------------------
\* the cursor whatever the size: no sentinel for an empty buffer
CursorAsOffset(size, cursor) == cursor

\* (size == 0) ? 0 : offset
ProvisionalOffset(size, cursor) == IF size = 0 THEN 0 ELSE cursor

\* a map that is written but never searched: every buffer counts as new
InsertWithoutLookup(map, key, provisional) ==
    [offset |-> provisional, inserted |-> TRUE,
     map |-> [k \in DOMAIN map \cup {key} |-> IF k = key THEN provisional ELSE map[k]]]

\* map.find(key) and, when absent, map.insert(pair(key, provisional))
LookupOrInsert(map, key, provisional) ==
    IF key \in DOMAIN map
    THEN [offset |-> map[key], inserted |-> FALSE, map |-> map]
    ELSE [offset |-> provisional, inserted |-> TRUE, map |-> (key :> provisional) @@ map]

\* the cursor advanced and the bytes checksummed after every lookup, found or not
AfterLookupAlways(cursor, checksum, r, owns, bytes) ==
    [offset |-> cursor + Len(bytes),
     checksum |-> UpdateChecksumVector(checksum, owns, bytes)]

\* the effect of a lookup r on the cursor and the checksum: only an insertion
\* advances the cursor by the buffer's size and checksums its bytes, as
\* oat_header_->UpdateChecksum(&v[0], size) of the buffer's vector v, which owns
\* storage or not
AfterLookup(cursor, checksum, r, owns, bytes) ==
    IF r.inserted
    THEN [offset |-> cursor + Len(bytes),
          checksum |-> UpdateChecksumVector(checksum, owns, bytes)]
    ELSE [offset |-> cursor, checksum |-> checksum]

\* frame_size_in_bytes, core_spill_mask, fp_spill_mask of the layout pass
LayoutFrameWords(compiled_method) ==
    IF compiled_method = NULL
    THEN << kStackAlignment, 0, 0 >>
    ELSE << CompiledMethods[compiled_method].frame_size_in_bytes,
            CompiledMethods[compiled_method].core_spill_mask,
            CompiledMethods[compiled_method].fp_spill_mask >>

\* lines 199-215: the code of a compiled method;
\* ls = [offset, checksum, code_offsets, mapping_table_offsets, vmap_table_offsets]
LayoutCode(ls, compiled_method, isa, owns_storage) ==
    IF compiled_method = NULL \/ IsAborted(ls.checksum) THEN [ls |-> ls, code_offset |-> 0]
    ELSE LET aligned == AlignCodeFor(ls.offset, isa)
             code == CompiledMethods[compiled_method].code
             bytes == CodeBytes(code)
             r == LookupOrInsert(ls.code_offsets, code,
                                 ProvisionalOffset(Len(bytes), aligned + CodeDeltaFor(isa)))
             a == AfterLookup(aligned, ls.checksum, r, code \in owns_storage, bytes)
         IN [ls |-> [ls EXCEPT !.offset = a.offset, !.checksum = a.checksum,
                               !.code_offsets = r.map],
             code_offset |-> r.offset]

\* the frame size alone, the two spill masks left out
LayoutFrameSizeOnly(ls, words) ==
    IF IsAborted(ls.checksum) THEN ls
    ELSE
    [ls EXCEPT !.offset = ls.offset + SizeOfWord,
               !.checksum = UpdateChecksum(ls.checksum, U32Bytes(words[1]))]

\* lines 222-229: the three frame words, each advancing the cursor and checksummed
LayoutFrame(ls, words) ==
    IF IsAborted(ls.checksum) THEN ls
    ELSE
    [ls EXCEPT !.offset = ls.offset + Len(words) * SizeOfWord,
               !.checksum = UpdateChecksumFields(ls.checksum,
                                [w \in 1..Len(words) |-> U32Bytes(words[w])])]

\* the mapping table stored with the offset the cursor gives it, also when the
\* map holds another
LayoutMappingTableAtCursor(ls, compiled_method, owns_storage) ==
    IF compiled_method = NULL \/ IsAborted(ls.checksum) THEN [ls |-> ls, mapping_table_offset |-> 0]
    ELSE LET mapping_table == CompiledMethods[compiled_method].mapping_table
             bytes == MappingBytes(mapping_table)
             r == LookupOrInsert(ls.mapping_table_offsets, mapping_table,
                                 ProvisionalOffset(Len(bytes), ls.offset))
             a == AfterLookup(ls.offset, ls.checksum, r, mapping_table \in owns_storage,
                              bytes)
         IN [ls |-> [ls EXCEPT !.offset = a.offset, !.checksum = a.checksum,
                               !.mapping_table_offsets = r.map],
             mapping_table_offset |-> ProvisionalOffset(Len(bytes), ls.offset)]

\* lines 231-244: the mapping table of a compiled method
LayoutMappingTable(ls, compiled_method, owns_storage) ==
    IF compiled_method = NULL \/ IsAborted(ls.checksum) THEN [ls |-> ls, mapping_table_offset |-> 0]
    ELSE LET mapping_table == CompiledMethods[compiled_method].mapping_table
             bytes == MappingBytes(mapping_table)
             r == LookupOrInsert(ls.mapping_table_offsets, mapping_table,
                                 ProvisionalOffset(Len(bytes), ls.offset))
             a == AfterLookup(ls.offset, ls.checksum, r, mapping_table \in owns_storage,
                              bytes)
         IN [ls |-> [ls EXCEPT !.offset = a.offset, !.checksum = a.checksum,
                               !.mapping_table_offsets = r.map],
             mapping_table_offset |-> r.offset]

\* lines 246-258: the vmap table of a compiled method
LayoutVmapTable(ls, compiled_method, owns_storage) ==
    IF compiled_method = NULL \/ IsAborted(ls.checksum) THEN [ls |-> ls, vmap_table_offset |-> 0]
    ELSE LET vmap_table == CompiledMethods[compiled_method].vmap_table
             bytes == VmapBytes(vmap_table)
             r == LookupOrInsert(ls.vmap_table_offsets, vmap_table,
                                 ProvisionalOffset(Len(bytes), ls.offset))
             a == AfterLookup(ls.offset, ls.checksum, r, vmap_table \in owns_storage, bytes)
         IN [ls |-> [ls EXCEPT !.offset = a.offset, !.checksum = a.checksum,
                               !.vmap_table_offsets = r.map],
             vmap_table_offset |-> r.offset]

\* an invoke stub laid out without a search of code_offsets_: every method gets
\* a copy of its own
LayoutInvokeStubUnshared(ls, invoke_stub, isa, owns_storage) ==
    IF invoke_stub = NULL \/ IsAborted(ls.checksum) THEN [ls |-> ls, invoke_stub_offset |-> 0]
    ELSE LET aligned == AlignCodeFor(ls.offset, isa)
             bytes == CodeBytes(invoke_stub)
         IN [ls |-> [ls EXCEPT !.offset = aligned + Len(bytes),
                               !.checksum = UpdateChecksumVector(ls.checksum,
                                                 invoke_stub \in owns_storage, bytes)],
             invoke_stub_offset |-> ProvisionalOffset(Len(bytes), aligned)]

\* lines 261-279: the invoke stub, deduplicated through code_offsets_
LayoutInvokeStub(ls, invoke_stub, isa, owns_storage) ==
    IF invoke_stub = NULL \/ IsAborted(ls.checksum) THEN [ls |-> ls, invoke_stub_offset |-> 0]
    ELSE LET aligned == AlignCodeFor(ls.offset, isa)
             bytes == CodeBytes(invoke_stub)
             r == LookupOrInsert(ls.code_offsets, invoke_stub,
                                 ProvisionalOffset(Len(bytes), aligned))
             a == AfterLookup(aligned, ls.checksum, r, invoke_stub \in owns_storage, bytes)
         IN [ls |-> [ls EXCEPT !.offset = a.offset, !.checksum = a.checksum,
                               !.code_offsets = r.map],
             invoke_stub_offset |-> r.offset]

\* the whole of InitOatCodeMethod for one method: the new layout state and the
\* OatMethodOffsets it stores; owns_storage is the set of the empty vectors of
\* the compiler that own storage. An update that aborts ends the method there:
\* the insertion and the cursor's advance that precede the call are made, the
\* stages after it are not
LayoutMethod(ls, method, isa, owns_storage) ==
    LET words == LayoutFrameWords(method.compiled_method)
        c == LayoutCode(ls, method.compiled_method, isa, owns_storage)
        f == LayoutFrame(c.ls, words)
        m == LayoutMappingTable(f, method.compiled_method, owns_storage)
        v == LayoutVmapTable(m.ls, method.compiled_method, owns_storage)
        t == LayoutInvokeStub(v.ls, method.invoke_stub, isa, owns_storage)
    IN [ls |-> t.ls,
        method_offsets |->
            [code_offset |-> c.code_offset,
             frame_size_in_bytes |-> words[1],
             core_spill_mask |-> words[2],
             fp_spill_mask |-> words[3],
             mapping_table_offset |-> m.mapping_table_offset,
             vmap_table_offset |-> v.vmap_table_offset,
             invoke_stub_offset |-> t.invoke_stub_offset]]

\* the class-def and the method the loops are at
HasInput == i <= Len(dex_files_)
HasClassDef == HasInput /\ class_def_index <= Len(dex_files_[i].class_defs)
ClassDef == dex_files_[i].class_defs[class_def_index]
HasMethod == HasClassDef /\ ClassDef.has_class_data
             /\ class_def_method_index < NumMethods(ClassDef)
Method == MethodsInOrder(ClassDef)[class_def_method_index + 1]

\* which of the method's empty vectors own storage is the compiler's affair.
\* A vector is checksummed once at most, when it enters its map, so the choice
\* is made at that step; it shows only where an update from NULL resets
OwnsStorageChoices(method) ==
    IF empty_update = "reset" THEN SUBSET (EmptyVectors \cap VectorsOf(method)) ELSE {{}}

InitOatCodeMethod ==
    /\ pc = "InitOatCodeDexFiles"
    /\ HasMethod
    /\ \E owns_storage \in OwnsStorageChoices(Method) :
       LET r == LayoutMethod([offset |-> offset, checksum |-> oat_header_.checksum,
                              code_offsets |-> code_offsets_,
                              mapping_table_offsets |-> mapping_table_offsets_,
                              vmap_table_offsets |-> vmap_table_offsets_],
                             Method, instruction_set, owns_storage)
       IN /\ offset' = r.ls.offset
          /\ code_offsets_' = r.ls.code_offsets
          /\ mapping_table_offsets_' = r.ls.mapping_table_offsets
          /\ vmap_table_offsets_' = r.ls.vmap_table_offsets
          /\ IF IsAborted(r.ls.checksum)
             THEN /\ oat_header_' = [oat_header_ EXCEPT
                                       !.checksum = ChecksumAtAbort(r.ls.checksum)]
                  /\ pc' = "aborted"
                  /\ UNCHANGED << oat_methods_, class_def_method_index >>
             ELSE /\ oat_header_' = [oat_header_ EXCEPT !.checksum = r.ls.checksum]
                  /\ oat_methods_' = [oat_methods_ EXCEPT
                                        ![oat_class_index][class_def_method_index + 1] =
                                            r.method_offsets]
                  /\ class_def_method_index' = class_def_method_index + 1
                  /\ pc' = pc
    /\ UNCHANGED << input_vars, oat_dex_files_, oat_classes_,
                    executable_offset_padding_length_, i, class_def_index,
                    oat_class_index, file_vars >>

\* the end of a class-def with the map of the code emptied, as if every
\* class-def had a map of its own
InitOatCodeClassDefOwnMap ==
    /\ pc = "InitOatCodeDexFiles"
    /\ HasClassDef
    /\ ~HasMethod
    /\ LET checksum == OatMethodsUpdateChecksum(oat_methods_[oat_class_index],
                                                oat_header_.checksum)
       IN IF IsAborted(checksum)
          THEN /\ pc' = "aborted"
               /\ UNCHANGED << oat_header_, class_def_index, oat_class_index,
                               class_def_method_index, code_offsets_ >>
          ELSE /\ oat_header_' = [oat_header_ EXCEPT !.checksum = checksum]
               /\ class_def_index' = class_def_index + 1
               /\ oat_class_index' = oat_class_index + 1
               /\ class_def_method_index' = 0
               /\ code_offsets_' = EmptyMap
               /\ pc' = pc
    /\ UNCHANGED << input_vars, offset, oat_dex_files_, oat_classes_, oat_methods_,
                    executable_offset_padding_length_,
                    mapping_table_offsets_, vmap_table_offsets_, i, file_vars >>

\* InitOatCodeClassDef returns (no class data, or all methods done); the loop of
\* InitOatCodeDexFile then checksums the methods table and moves on. The
\* update is the first thing the step does, so one that aborts leaves all as
\* it was
InitOatCodeClassDef ==
    /\ pc = "InitOatCodeDexFiles"
    /\ HasClassDef
    /\ ~HasMethod
    /\ LET checksum == OatMethodsUpdateChecksum(oat_methods_[oat_class_index],
                                                oat_header_.checksum)
       IN IF IsAborted(checksum)
          THEN /\ pc' = "aborted"
               /\ UNCHANGED << oat_header_, class_def_index, oat_class_index,
                               class_def_method_index >>
          ELSE /\ oat_header_' = [oat_header_ EXCEPT !.checksum = checksum]
               /\ class_def_index' = class_def_index + 1
               /\ oat_class_index' = oat_class_index + 1
               /\ class_def_method_index' = 0
               /\ pc' = pc
    /\ UNCHANGED << input_vars, offset, oat_dex_files_, oat_classes_, oat_methods_,
                    executable_offset_padding_length_, code_offsets_,
                    mapping_table_offsets_, vmap_table_offsets_, i, file_vars >>

\* InitOatCodeDexFile returns; the loop of InitOatCodeDexFiles moves to the next input
InitOatCodeDexFile ==
    /\ pc = "InitOatCodeDexFiles"
    /\ HasInput
    /\ ~HasClassDef
    /\ i' = i + 1
    /\ class_def_index' = 1
    /\ UNCHANGED << input_vars, pc, layout_vars, oat_class_index,
                    class_def_method_index, file_vars >>

\* InitOatCodeDexFiles returns and the constructor ends
InitOatCodeDexFiles ==
    /\ pc = "InitOatCodeDexFiles"
    /\ ~HasInput
    /\ pc' = "Write"
    /\ UNCHANGED << input_vars, layout_vars, loop_vars, file_vars >>


\* ---------------------------------------------------------------------
\* The File collaborator: WriteFully and lseek(fd, n, SEEK_CUR)
\* ---------------------------------------------------------------------
\* io = [pos, writes, code_offset, ok, dchecks, log, ops, fail_at]: the file
\* position, the writes done, the emit pass's tracked offset, whether every
\* call so far succeeded, whether every DCHECK so far held, the dedup steps
\* taken, the calls that can fail made so far, and which of them fails (0: none).
IoState(pos, writes, tracked_offset, fail_at) ==
    [pos |-> pos, writes |-> writes, code_offset |-> tracked_offset, ok |-> TRUE,
     dchecks |-> TRUE, log |-> << >>, ops |-> 0, fail_at |-> fail_at]

\* a write that is made also after an earlier call has failed
WriteFullyRegardless(io, bytes, what, owner, buf) ==
    IF Len(bytes) > 0 /\ io.ops + 1 = io.fail_at
    THEN [io EXCEPT !.ok = FALSE, !.ops = @ + 1]
    ELSE [io EXCEPT !.writes = Append(@, [pos |-> io.pos, bytes |-> bytes, what |-> what,
                                          owner |-> owner, buf |-> buf]),
                    !.pos = @ + Len(bytes),
                    !.ops = IF Len(bytes) > 0 THEN @ + 1 ELSE @]

\* file->WriteFully(bytes): a failed call writes nothing; a call of length 0
\* cannot fail
WriteFully(io, bytes, what, owner, buf) ==
    IF ~io.ok THEN io
    ELSE IF Len(bytes) > 0 /\ io.ops + 1 = io.fail_at
    THEN [io EXCEPT !.ok = FALSE, !.ops = @ + 1]
    ELSE [io EXCEPT !.writes = Append(@, [pos |-> io.pos, bytes |-> bytes, what |-> what,
                                          owner |-> owner, buf |-> buf]),
                    !.pos = @ + Len(bytes),
                    !.ops = IF Len(bytes) > 0 THEN @ + 1 ELSE @]

\* lseek(file->Fd(), delta, SEEK_CUR) compared with the expected position: a
\* failed call returns -1 and leaves the position alone
SeekTo(io, delta, expected) ==
    IF ~io.ok THEN io
    ELSE IF io.ops + 1 = io.fail_at \/ io.pos + delta # expected
    THEN [io EXCEPT !.ok = FALSE, !.ops = @ + 1,
                    !.pos = IF io.ops + 1 = io.fail_at THEN @ ELSE @ + delta]
    ELSE [io EXCEPT !.pos = @ + delta, !.ops = @ + 1]

\* code_offset += n, after a successful call
Advance(io, n) == IF io.ok THEN [io EXCEPT !.code_offset = @ + n] ELSE io

\* DCHECK(cond)
Dcheck(io, cond) == IF io.ok /\ ~cond THEN [io EXCEPT !.dchecks = FALSE] ELSE io

\* DCHECK_CODE_OFFSET()
DcheckCodeOffset(io) ==
    IF io.ok /\ io.code_offset # io.pos THEN [io EXCEPT !.dchecks = FALSE] ELSE io

\* the positions a file handed to Write can be at
FileStartPositions == {0, 4}

\* ---------------------------------------------------------------------
\* Emit pass (Write)
\* ---------------------------------------------------------------------
\* Write, up to the call of WriteTables
Write ==
    /\ pc = "Write"
    /\ \E start \in FileStartPositions, fail_at \in 0..1 :
         LET io == WriteFully(IoState(start, << >>, 0, fail_at),
                              OatHeaderBytes(oat_header_), "oat_header", << >>, NULL)
         IN /\ file_pos' = io.pos
            /\ file_writes' = io.writes
            /\ pc' = IF io.ok THEN "WriteTables" ELSE "done"
            /\ io_failed' = ~io.ok
            /\ result' = IF io.ok THEN result ELSE "false"
    /\ UNCHANGED << input_vars, layout_vars, loop_vars, code_offset, dchecks, emit_log >>

\* OatDexFile::Write
OatDexFileWrite(io, d, n) ==
    LET f == OatDexFileFields(d)
        io1 == WriteFully(io, f[1], "dex_file_location_size", << n >>, NULL)
        io2 == WriteFully(io1, f[2], "dex_file_location_data", << n >>, NULL)
        io3 == WriteFully(io2, f[3], "dex_file_checksum", << n >>, NULL)
    IN WriteFully(io3, f[4], "classes_offset", << n >>, NULL)

\* OatClasses::Write and OatMethods::Write
OatClassesWrite(io, methods_offsets, n) ==
    WriteFully(io, OatClassesBytes(methods_offsets), "methods_offsets", << n >>, NULL)
OatMethodsWrite(io, method_offsets, n) ==
    WriteFully(io, OatMethodsBytes(method_offsets), "method_offsets", << n >>, NULL)

\* the three loops of WriteTables
RECURSIVE WriteOatDexFiles(_, _, _)
WriteOatDexFiles(io, ds, n) ==
    IF n > Len(ds) THEN io ELSE WriteOatDexFiles(OatDexFileWrite(io, ds[n], n), ds, n + 1)
RECURSIVE WriteOatClasses(_, _, _)
WriteOatClasses(io, cs, n) ==
    IF n > Len(cs) THEN io ELSE WriteOatClasses(OatClassesWrite(io, cs[n], n), cs, n + 1)
RECURSIVE WriteOatMethods(_, _, _)
WriteOatMethods(io, ms, n) ==
    IF n > Len(ms) THEN io ELSE WriteOatMethods(OatMethodsWrite(io, ms[n], n), ms, n + 1)

WriteTablesIo(io) ==
    WriteOatMethods(WriteOatClasses(WriteOatDexFiles(io, oat_dex_files_, 1),
                                    oat_classes_, 1),
                    oat_methods_, 1)

WriteTables ==
    /\ pc = "WriteTables"
    /\ \E fail_at \in 0..WriteTablesIo(IoState(file_pos, file_writes, 0, 0)).ops :
         LET io == WriteTablesIo(IoState(file_pos, file_writes, 0, fail_at))
         IN /\ file_pos' = io.pos
            /\ file_writes' = io.writes
            /\ pc' = IF io.ok THEN "WriteCode" ELSE "done"
            /\ io_failed' = ~io.ok
            /\ result' = IF io.ok THEN result ELSE "false"
    /\ UNCHANGED << input_vars, layout_vars, loop_vars, code_offset, dchecks, emit_log >>

\* a seek over the padding whose landing position is not compared with
\* the executable offset
WriteCodeIoUnchecked(io) ==
    LET sought == SeekTo(io, executable_offset_padding_length_,
                         io.pos + executable_offset_padding_length_)
    IN Advance(sought, oat_header_.executable_offset)

\* WriteCode: seek over the padding to the executable section
WriteCodeIo(io) ==
    LET sought == SeekTo(io, executable_offset_padding_length_, oat_header_.executable_offset)
        tracked == Advance(sought, oat_header_.executable_offset)
    IN DcheckCodeOffset(tracked)

WriteCode ==
    /\ pc = "WriteCode"
    /\ \E fail_at \in 0..1 :
         LET io == WriteCodeIo(IoState(file_pos, file_writes, 0, fail_at))
         IN /\ file_pos' = io.pos
            /\ file_writes' = io.writes
            /\ dchecks' = io.dchecks
            /\ code_offset' = IF io.ok THEN io.code_offset ELSE 0
            /\ pc' = IF io.ok THEN "WriteCodeDexFiles" ELSE "done"
            /\ io_failed' = ~io.ok
            /\ result' = IF io.ok THEN result ELSE "false"
    /\ i' = 1
    /\ class_def_index' = 1
    /\ oat_class_index' = 1
    /\ class_def_method_index' = 0
    /\ UNCHANGED << input_vars, layout_vars, emit_log >>


\* the seek over an alignment gap without code_offset += aligned_code_delta
EmitAlignUntracked(io, isa) ==
    LET aligned_code_offset == AlignCodeFor(io.code_offset, isa)
        aligned_code_delta == aligned_code_offset - io.code_offset
        sought == SeekTo(io, aligned_code_delta, io.pos + aligned_code_delta)
    IN IF aligned_code_delta # 0 THEN DcheckCodeOffset(sought) ELSE io

\* ---------------------------------------------------------------------
\* WriteCodeMethod
\* ---------------------------------------------------------------------
\* the seek over an alignment gap (lines 458-469 and 563-575)
EmitAlign(io, isa) ==
    LET aligned_code_offset == AlignCodeFor(io.code_offset, isa)
        aligned_code_delta == aligned_code_offset - io.code_offset
        sought == SeekTo(io, aligned_code_delta, aligned_code_offset)
        tracked == Advance(sought, aligned_code_delta)
    IN IF aligned_code_delta # 0 THEN DcheckCodeOffset(tracked) ELSE io

\* a buffer taken for already written whenever the map has it
IsInMap(map, key, here, stored) == key \in DOMAIN map

\* whether the emit pass takes a buffer for already written: the map has it
\* and this is not the position the layout stored for the method
IsEmitHit(map, key, here, stored) == key \in DOMAIN map /\ here # stored

\* one deduplicated artifact (lines 474-491, 517-535, 540-558, 580-598): here is
\* the tracked offset (plus CodeDelta for code), stored the MethodLayout field
EmitBuffer(io, map, key, bytes, delta, stored, what, owner) ==
    LET here == io.code_offset + delta
        hit == IsEmitHit(map, key, here, stored)
        checked == Dcheck(io, \/ (Len(bytes) = 0 /\ stored = 0)
                              \/ (IF hit THEN map[key] ELSE here) = stored)
        written == WriteFully(checked, bytes, what, owner, key)
        tracked == Advance(written, Len(bytes))
        after == DcheckCodeOffset(IF hit THEN checked ELSE tracked)
    IN IF ~io.ok THEN io
       ELSE [after EXCEPT !.log = Append(@, [owner |-> owner, what |-> what, buf |-> key,
                                             size |-> Len(bytes), hit |-> hit,
                                             stored |-> stored, before |-> io.pos,
                                             after |-> after.pos, ok |-> after.ok])]

\* frame_size_in_bytes, core_spill_mask, fp_spill_mask of the emit pass
EmitFrameWords(compiled_method) ==
    IF compiled_method = NULL
    THEN << 0, 0, 0 >>
    ELSE << CompiledMethods[compiled_method].frame_size_in_bytes,
            CompiledMethods[compiled_method].core_spill_mask,
            CompiledMethods[compiled_method].fp_spill_mask >>

\* the three frame words, the second and third written whatever became of the
\* calls before them
EmitFrameUnchecked(io, words, owner) ==
    LET w1 == WriteFully(io, U32Bytes(words[1]), "frame_size_in_bytes", owner, NULL)
        t1 == Advance(w1, SizeOfWord)
        w2 == WriteFullyRegardless(t1, U32Bytes(words[2]), "core_spill_mask", owner, NULL)
        t2 == Advance(w2, SizeOfWord)
        w3 == WriteFullyRegardless(t2, U32Bytes(words[3]), "fp_spill_mask", owner, NULL)
    IN Advance(w3, SizeOfWord)

\* lines 497-511: the three inline frame words
EmitFrame(io, words, owner) ==
    LET w1 == WriteFully(io, U32Bytes(words[1]), "frame_size_in_bytes", owner, NULL)
        t1 == Advance(w1, SizeOfWord)
        w2 == WriteFully(t1, U32Bytes(words[2]), "core_spill_mask", owner, NULL)
        t2 == Advance(w2, SizeOfWord)
        w3 == WriteFully(t2, U32Bytes(words[3]), "fp_spill_mask", owner, NULL)
    IN Advance(w3, SizeOfWord)

\* the whole of WriteCodeMethod for one method
WriteCodeMethodIo(io, method, method_offsets, owner, isa) ==
    LET cm == method.compiled_method
        compiled == cm # NULL
        stub == method.invoke_stub
        a1 == IF compiled THEN EmitAlign(io, isa) ELSE io
        c == IF compiled
             THEN EmitBuffer(a1, code_offsets_, CompiledMethods[cm].code,
                             CodeBytes(CompiledMethods[cm].code), CodeDeltaFor(isa),
                             method_offsets.code_offset, "code", owner)
             ELSE a1
        f == EmitFrame(c, EmitFrameWords(cm), owner)
        m == IF compiled
             THEN EmitBuffer(f, mapping_table_offsets_, CompiledMethods[cm].mapping_table,
                             MappingBytes(CompiledMethods[cm].mapping_table), 0,
                             method_offsets.mapping_table_offset, "mapping_table", owner)
             ELSE f
        v == IF compiled
             THEN EmitBuffer(m, vmap_table_offsets_, CompiledMethods[cm].vmap_table,
                             VmapBytes(CompiledMethods[cm].vmap_table), 0,
                             method_offsets.vmap_table_offset, "vmap_table", owner)
             ELSE m
        a2 == IF stub # NULL THEN EmitAlign(v, isa) ELSE v
    IN IF stub # NULL
       THEN EmitBuffer(a2, code_offsets_, stub, CodeBytes(stub), 0,
                       method_offsets.invoke_stub_offset, "invoke_stub", owner)
       ELSE a2

\* WriteCodeMethod with the frame words it writes fed to the header's checksum
WriteCodeMethodChecksumming ==
    /\ pc = "WriteCodeDexFiles"
    /\ HasMethod
    /\ LET owner == << oat_class_index, class_def_method_index + 1 >>
           method_offsets == oat_methods_[oat_class_index][class_def_method_index + 1]
           start == IoState(file_pos, file_writes, code_offset, 0)
           all == WriteCodeMethodIo(start, Method, method_offsets, owner, instruction_set)
       IN \E fail_at \in 0..all.ops :
            LET io == WriteCodeMethodIo([start EXCEPT !.fail_at = fail_at, !.dchecks = dchecks,
                                                      !.log = emit_log],
                                        Method, method_offsets, owner, instruction_set)
            IN /\ file_pos' = io.pos
               /\ file_writes' = io.writes
               /\ dchecks' = io.dchecks
               /\ emit_log' = io.log
               /\ code_offset' = IF io.ok THEN io.code_offset ELSE 0
               /\ pc' = IF io.ok THEN pc ELSE "done"
               /\ io_failed' = ~io.ok
               /\ result' = IF io.ok THEN result ELSE "false"
    /\ oat_header_' =
           [oat_header_ EXCEPT
              !.checksum = UpdateChecksum(@, U32Bytes(EmitFrameWords(Method.compiled_method)[1]))]
    /\ class_def_method_index' = class_def_method_index + 1
    /\ UNCHANGED << input_vars, offset, oat_dex_files_, oat_classes_, oat_methods_,
                    executable_offset_padding_length_, code_offsets_,
                    mapping_table_offsets_, vmap_table_offsets_, i, class_def_index,
                    oat_class_index >>

WriteCodeMethod ==
    /\ pc = "WriteCodeDexFiles"
    /\ HasMethod
    /\ LET owner == << oat_class_index, class_def_method_index + 1 >>
           method_offsets == oat_methods_[oat_class_index][class_def_method_index + 1]
           start == IoState(file_pos, file_writes, code_offset, 0)
           all == WriteCodeMethodIo(start, Method, method_offsets, owner, instruction_set)
       IN \E fail_at \in 0..all.ops :
            LET io == WriteCodeMethodIo([start EXCEPT !.fail_at = fail_at, !.dchecks = dchecks,
                                                      !.log = emit_log],
                                        Method, method_offsets, owner, instruction_set)
            IN /\ file_pos' = io.pos
               /\ file_writes' = io.writes
               /\ dchecks' = io.dchecks
               /\ emit_log' = io.log
               /\ code_offset' = IF io.ok THEN io.code_offset ELSE 0
               /\ pc' = IF io.ok THEN pc ELSE "done"
               /\ io_failed' = ~io.ok
               /\ result' = IF io.ok THEN result ELSE "false"
    /\ class_def_method_index' = class_def_method_index + 1
    /\ UNCHANGED << input_vars, layout_vars, i, class_def_index, oat_class_index >>

\* WriteCodeClassDef returns a non-zero offset; the loop of WriteCodeDexFile moves on
WriteCodeClassDef ==
    /\ pc = "WriteCodeDexFiles"
    /\ HasClassDef
    /\ ~HasMethod
    /\ class_def_index' = class_def_index + 1
    /\ oat_class_index' = oat_class_index + 1
    /\ class_def_method_index' = 0
    /\ UNCHANGED << input_vars, pc, layout_vars, i, file_vars >>

\* WriteCodeDexFile returns a non-zero offset; the loop of WriteCodeDexFiles moves on
WriteCodeDexFile ==
    /\ pc = "WriteCodeDexFiles"
    /\ HasInput
    /\ ~HasClassDef
    /\ i' = i + 1
    /\ class_def_index' = 1
    /\ UNCHANGED << input_vars, pc, layout_vars, oat_class_index,
                    class_def_method_index, file_vars >>

\* WriteCodeDexFiles returns a non-zero offset and Write returns true
WriteCodeDexFiles ==
    /\ pc = "WriteCodeDexFiles"
    /\ ~HasInput
    /\ pc' = "done"
    /\ result' = IF code_offset = 0 THEN "false" ELSE "true"
    /\ UNCHANGED << input_vars, layout_vars, loop_vars, file_pos, file_writes,
                    code_offset, dchecks, emit_log, io_failed >>

Next ==
    \/ InitOatHeader
    \/ InitOatDexFiles
    \/ InitOatClasses
    \/ InitOatMethods
    \/ InitOatCode
    \/ InitOatCodeMethod
    \/ InitOatCodeClassDef
    \/ InitOatCodeDexFile
    \/ InitOatCodeDexFiles
    \/ Write
    \/ WriteTables
    \/ WriteCode
    \/ WriteCodeMethod
    \/ WriteCodeClassDef
    \/ WriteCodeDexFile
    \/ WriteCodeDexFiles

Spec == Init /\ [][Next]_vars


\* =====================================================================
\* Properties
\* =====================================================================
\* the class-defs of all inputs in the order of oat_class_index, the methods
\* <<oat_class_index, class_def_method_index + 1>> and what the compiler has for them
ClassDefsInOrder == Flatten([n \in 1..Len(dex_files_) |-> dex_files_[n].class_defs])
MethodIds ==
    UNION {{<< c, k >> : k \in 1..NumMethodsOfClassDef(ClassDefsInOrder[c])} :
             c \in 1..Len(ClassDefsInOrder)}
MethodAt(id) == MethodsInOrder(ClassDefsInOrder[id[1]])[id[2]]
\* the dex file the c-th class-def of all belongs to
DexFileOfClassDef(c) ==
    CHOOSE n \in 1..Len(dex_files_) :
        LET before == SumSeq([m \in 1..(n - 1) |-> Len(dex_files_[m].class_defs)])
        IN before < c /\ c <= before + Len(dex_files_[n].class_defs)
IsCompiled(id) == MethodAt(id).compiled_method # NULL
HasInvokeStub(id) == MethodAt(id).invoke_stub # NULL
CodeOf(id) == CompiledMethods[MethodAt(id).compiled_method].code
MappingTableOf(id) == CompiledMethods[MethodAt(id).compiled_method].mapping_table
VmapTableOf(id) == CompiledMethods[MethodAt(id).compiled_method].vmap_table
InvokeStubOf(id) == MethodAt(id).invoke_stub
MethodBefore(id1, id2) == id1[1] < id2[1] \/ (id1[1] = id2[1] /\ id1[2] < id2[2])

\* the OatMethodOffsets the layout pass stored for a method
MethodLayout(id) == oat_methods_[id[1]][id[2]]

\* where the program is: the constructor has returned and Write is to be called
\* (the emit pass leaves what the layout pass stored alone); Write returned true
LayoutDone == pc = "Write"
WriteSucceeded == pc = "done" /\ result = "true"

\* the writes that put bytes of a buffer into the file, as indexes of file_writes
WritesOf(what, buf) ==
    {j \in 1..Len(file_writes) :
        file_writes[j].what \in what /\ file_writes[j].buf = buf /\ Len(file_writes[j].bytes) > 0}
FirstWriteOf(what, buf) ==
    CHOOSE j \in WritesOf(what, buf) : \A l \in WritesOf(what, buf) : j <= l
CodeOrStub == {"code", "invoke_stub"}

\* C1: in a run where every write and seek succeeds, for every method with a
\* compiled method of non-empty code, the first write of that code buffer is at
\* file position code_offset - CodeDelta, code_offset being the MethodLayout's.
C1_CodeWrittenAtCodeOffset ==
    WriteSucceeded =>
        \A id \in MethodIds :
            (IsCompiled(id) /\ Len(CodeBytes(CodeOf(id))) > 0) =>
                /\ WritesOf(CodeOrStub, CodeOf(id)) # {}
                /\ file_writes[FirstWriteOf(CodeOrStub, CodeOf(id))].pos =
                       MethodLayout(id).code_offset - CodeDeltaFor(instruction_set)

\* C2: every non-empty mapping table, vmap table and invoke stub of every method
\* is written by the emit pass at the file position its MethodLayout stores
\* (mapping_table_offset, vmap_table_offset, invoke_stub_offset).
C2_TablesAndStubWrittenAtOffsets ==
    WriteSucceeded =>
        \A id \in MethodIds :
            /\ (IsCompiled(id) /\ Len(MappingBytes(MappingTableOf(id))) > 0) =>
                   /\ WritesOf({"mapping_table"}, MappingTableOf(id)) # {}
                   /\ file_writes[FirstWriteOf({"mapping_table"}, MappingTableOf(id))].pos =
                          MethodLayout(id).mapping_table_offset
            /\ (IsCompiled(id) /\ Len(VmapBytes(VmapTableOf(id))) > 0) =>
                   /\ WritesOf({"vmap_table"}, VmapTableOf(id)) # {}
                   /\ file_writes[FirstWriteOf({"vmap_table"}, VmapTableOf(id))].pos =
                          MethodLayout(id).vmap_table_offset
            /\ (HasInvokeStub(id) /\ Len(CodeBytes(InvokeStubOf(id))) > 0) =>
                   /\ WritesOf(CodeOrStub, InvokeStubOf(id)) # {}
                   /\ file_writes[FirstWriteOf(CodeOrStub, InvokeStubOf(id))].pos =
                          MethodLayout(id).invoke_stub_offset

\* C3: two methods whose compiled methods have the identical code buffer have
\* equal code_offset once the layout pass is over, and after a successful Write
\* the bytes of that buffer were written to the file exactly once (an empty
\* buffer has no bytes to write).
C3_SharedCodeOneOffsetOneCopy ==
    \A id1, id2 \in MethodIds :
        (id1 # id2 /\ IsCompiled(id1) /\ IsCompiled(id2) /\ CodeOf(id1) = CodeOf(id2)) =>
            /\ LayoutDone => MethodLayout(id1).code_offset = MethodLayout(id2).code_offset
            /\ WriteSucceeded =>
                   Cardinality(WritesOf(CodeOrStub, CodeOf(id1))) =
                       (IF Len(CodeBytes(CodeOf(id1))) > 0 THEN 1 ELSE 0)

\* Write succeeded where two methods of different dex files have the same
\* non-empty code buffer: one offset, one copy in the file
C3_SharedCodeWritten ==
    /\ WriteSucceeded
    /\ \E id1, id2 \in MethodIds :
           /\ DexFileOfClassDef(id1[1]) # DexFileOfClassDef(id2[1])
           /\ IsCompiled(id1) /\ IsCompiled(id2) /\ CodeOf(id1) = CodeOf(id2)
           /\ MethodLayout(id1).code_offset > 0
           /\ MethodLayout(id1).code_offset = MethodLayout(id2).code_offset
           /\ Cardinality(WritesOf(CodeOrStub, CodeOf(id1))) = 1

\* the same where the two methods are of different class-defs of one dex file
SharedCodeAcrossClassDefsWritten ==
    /\ WriteSucceeded
    /\ \E id1, id2 \in MethodIds :
           /\ id1[1] # id2[1]
           /\ DexFileOfClassDef(id1[1]) = DexFileOfClassDef(id2[1])
           /\ IsCompiled(id1) /\ IsCompiled(id2) /\ CodeOf(id1) = CodeOf(id2)
           /\ MethodLayout(id1).code_offset > 0
           /\ MethodLayout(id1).code_offset = MethodLayout(id2).code_offset
           /\ Cardinality(WritesOf(CodeOrStub, CodeOf(id1))) = 1

\* the same where the two methods are of one class-def
SharedCodeInOneClassDefWritten ==
    /\ WriteSucceeded
    /\ \E id1, id2 \in MethodIds :
           /\ id1 # id2 /\ id1[1] = id2[1]
           /\ IsCompiled(id1) /\ IsCompiled(id2) /\ CodeOf(id1) = CodeOf(id2)
           /\ MethodLayout(id1).code_offset > 0
           /\ MethodLayout(id1).code_offset = MethodLayout(id2).code_offset
           /\ Cardinality(WritesOf(CodeOrStub, CodeOf(id1))) = 1

\* the buffers the layout pass has looked up in each map by the end
CodeMapKeys ==
    {CodeOf(id) : id \in {m \in MethodIds : IsCompiled(m)}}
    \cup {InvokeStubOf(id) : id \in {m \in MethodIds : HasInvokeStub(m)}}
MappingMapKeys == {MappingTableOf(id) : id \in {m \in MethodIds : IsCompiled(m)}}
VmapMapKeys == {VmapTableOf(id) : id \in {m \in MethodIds : IsCompiled(m)}}

\* C4: invoke stubs are deduplicated through the map of the code. Once the
\* layout pass is over, methods with the same stub buffer have the same
\* invoke_stub_offset; a stub that is the buffer of a code laid out earlier (by
\* an earlier method, or by the stub's own method) has that code's code_offset;
\* the mapping tables and the vmap tables are keys of their own maps only, the
\* code map holding exactly the code and stub buffers. After a successful Write
\* the bytes of a non-empty stub buffer were written to the file exactly once,
\* as code or as stub, the offsets and the map being those of the layout.
C4_StubsSharedThroughCodeMap ==
    /\ LayoutDone =>
        /\ \A id1, id2 \in MethodIds :
               (HasInvokeStub(id1) /\ HasInvokeStub(id2)
                    /\ InvokeStubOf(id1) = InvokeStubOf(id2)) =>
                   MethodLayout(id1).invoke_stub_offset = MethodLayout(id2).invoke_stub_offset
        /\ \A id1, id2 \in MethodIds :
               (IsCompiled(id1) /\ HasInvokeStub(id2) /\ CodeOf(id1) = InvokeStubOf(id2)
                    /\ (id1 = id2 \/ MethodBefore(id1, id2))) =>
                   MethodLayout(id2).invoke_stub_offset = MethodLayout(id1).code_offset
        /\ DOMAIN code_offsets_ = CodeMapKeys
        /\ DOMAIN mapping_table_offsets_ = MappingMapKeys
        /\ DOMAIN vmap_table_offsets_ = VmapMapKeys
        /\ \A id \in MethodIds :
               IsCompiled(id) =>
                   /\ MethodLayout(id).mapping_table_offset =
                          mapping_table_offsets_[MappingTableOf(id)]
                   /\ MethodLayout(id).vmap_table_offset =
                          vmap_table_offsets_[VmapTableOf(id)]
    /\ WriteSucceeded =>
        /\ \A id \in MethodIds :
               HasInvokeStub(id) =>
                   Cardinality(WritesOf(CodeOrStub, InvokeStubOf(id))) =
                       (IF Len(CodeBytes(InvokeStubOf(id))) > 0 THEN 1 ELSE 0)
        /\ \A id1, id2 \in MethodIds :
               (HasInvokeStub(id1) /\ HasInvokeStub(id2)
                    /\ InvokeStubOf(id1) = InvokeStubOf(id2)) =>
                   MethodLayout(id1).invoke_stub_offset = MethodLayout(id2).invoke_stub_offset
        /\ DOMAIN code_offsets_ = CodeMapKeys

\* Write succeeded on an input where a stub is shared by two methods and is also
\* the code of an earlier method
C4_StubSharedWithCode ==
    /\ WriteSucceeded
    /\ \E id1, id2, id3 \in MethodIds :
           /\ id2 # id3 /\ HasInvokeStub(id2) /\ HasInvokeStub(id3)
           /\ InvokeStubOf(id2) = InvokeStubOf(id3)
           /\ IsCompiled(id1) /\ CodeOf(id1) = InvokeStubOf(id2) /\ MethodBefore(id1, id2)
           /\ MethodLayout(id3).invoke_stub_offset = MethodLayout(id1).code_offset
           /\ MethodLayout(id1).code_offset > 0
           /\ Cardinality(WritesOf(CodeOrStub, InvokeStubOf(id2))) = 1

\* ---------------------------------------------------------------------
\* A reader of the written file
\* ---------------------------------------------------------------------
\* the byte at a position of the file: that of the last write covering it
Covering(p) ==
    {j \in 1..Len(file_writes) :
        file_writes[j].pos <= p /\ p < file_writes[j].pos + Len(file_writes[j].bytes)}
FileByteAt(p) ==
    LET covering == Covering(p)
    IN IF covering = {} THEN 0
       ELSE LET j == CHOOSE x \in covering : \A y \in covering : y <= x
            IN file_writes[j].bytes[p - file_writes[j].pos + 1]
ReadU32(p) ==
    FileByteAt(p) + 256 * FileByteAt(p + 1) + 65536 * FileByteAt(p + 2)
        + 16777216 * FileByteAt(p + 3)

\* the size of the file: the end of the furthest write
FileSize ==
    LET ends == {file_writes[j].pos + Len(file_writes[j].bytes) : j \in 1..Len(file_writes)}
    IN IF ends = {} THEN 0 ELSE CHOOSE e \in ends : \A f \in ends : f <= e

\* where the reader finds the descriptor of input n, and what it reads there
RECURSIVE ReadDescriptorAt(_)
ReadDescriptorAt(n) ==
    IF n = 1 THEN SizeOfOatHeader
    ELSE LET p == ReadDescriptorAt(n - 1)
         IN p + SizeOfWord + ReadU32(p) + SizeOfWord + SizeOfWord
ReadClassesOffset(n) ==
    LET p == ReadDescriptorAt(n) IN ReadU32(p + SizeOfWord + ReadU32(p) + SizeOfWord)
ReadMethodsOffset(classes_offset, c) == ReadU32(classes_offset + SizeOfWord * (c - 1))
ReadMethodOffsets(methods_offset, k) ==
    LET p == methods_offset + 7 * SizeOfWord * (k - 1)
    IN [code_offset |-> ReadU32(p),
        frame_size_in_bytes |-> ReadU32(p + SizeOfWord),
        core_spill_mask |-> ReadU32(p + 2 * SizeOfWord),
        fp_spill_mask |-> ReadU32(p + 3 * SizeOfWord),
        mapping_table_offset |-> ReadU32(p + 4 * SizeOfWord),
        vmap_table_offset |-> ReadU32(p + 5 * SizeOfWord),
        invoke_stub_offset |-> ReadU32(p + 6 * SizeOfWord)]

\* the oat_class_index of class-def c of input n
OatClassIndexOf(n, c) == SumSeq([m \in 1..(n - 1) |-> Len(dex_files_[m].class_defs)]) + c

\* the file position at which a table began to be written
TableWrittenAt(what, owner) ==
    LET j == CHOOSE x \in 1..Len(file_writes) :
                 file_writes[x].what = what /\ file_writes[x].owner = owner
    IN file_writes[j].pos

\* C5: in the file of a successful Write, the classes_offset read from the
\* descriptor of every input is the position where that input's class table was
\* written, every entry of that table is the position where the class-def's
\* methods table was written, and the reader that follows only these offsets
\* finds there the OatMethodOffsets of every method.
C5_TablesSelfConsistent ==
    WriteSucceeded =>
        \A n \in 1..Len(dex_files_) :
            LET classes_offset == ReadClassesOffset(n)
            IN /\ classes_offset = TableWrittenAt("methods_offsets", << n >>)
               /\ \A c \in 1..Len(dex_files_[n].class_defs) :
                      LET methods_offset == ReadMethodsOffset(classes_offset, c)
                          oat_class == OatClassIndexOf(n, c)
                      IN /\ methods_offset = TableWrittenAt("method_offsets", << oat_class >>)
                         /\ \A k \in 1..NumMethodsOfClassDef(dex_files_[n].class_defs[c]) :
                                ReadMethodOffsets(methods_offset, k) = oat_methods_[oat_class][k]

\* Write succeeded on two inputs, the second with a class-def that has a method
\* whose record the reader finds
C5_SecondInputRead ==
    /\ WriteSucceeded
    /\ Len(dex_files_) = 2
    /\ Len(dex_files_[2].class_defs) > 0
    /\ LET c == Len(dex_files_[2].class_defs)
           methods_offset == ReadMethodsOffset(ReadClassesOffset(2), c)
       IN /\ NumMethodsOfClassDef(dex_files_[2].class_defs[c]) > 0
          /\ ReadMethodOffsets(methods_offset, 1).code_offset > 0
          /\ ReadClassesOffset(2) > ReadClassesOffset(1)

\* the end of the last methods table, from the inputs alone: the header, the
\* descriptors, the class tables and the methods tables
TablesEnd ==
    SizeOfOatHeader
    + SumSeq([n \in 1..Len(dex_files_) |-> 3 * SizeOfWord + Len(dex_files_[n].location)])
    + SumSeq([n \in 1..Len(dex_files_) |-> SizeOfWord * Len(dex_files_[n].class_defs)])
    + SumSeq([c \in 1..Len(ClassDefsInOrder) |->
                7 * SizeOfWord * NumMethodsOfClassDef(ClassDefsInOrder[c])])


\* C6: after layout, Header.executable_offset is a multiple of the page size, is
\* at or after the end of the last methods table, is less than one page past
\* it, and the recorded padding length is executable_offset minus that end.
C6_ExecutableOffsetPageAligned ==
    LayoutDone =>
        /\ oat_header_.executable_offset % kPageSize = 0
        /\ oat_header_.executable_offset >= TablesEnd
        /\ oat_header_.executable_offset - TablesEnd < kPageSize
        /\ executable_offset_padding_length_ = oat_header_.executable_offset - TablesEnd

\* layout is over for tables that end exactly on a page boundary (no padding),
\* or one byte after one (a page less one byte of padding)
C6_TablesEndAtPageEdge ==
    /\ LayoutDone
    /\ \/ (TablesEnd = kPageSize /\ executable_offset_padding_length_ = 0)
       \/ (TablesEnd = kPageSize + 1 /\ executable_offset_padding_length_ = kPageSize - 1)

\* ---------------------------------------------------------------------
\* The checksum of what the file holds
\* ---------------------------------------------------------------------
DescriptorFields == {"dex_file_location_size", "dex_file_location_data",
                     "dex_file_checksum", "classes_offset"}
MethodArtifacts == {"code", "frame_size_in_bytes", "core_spill_mask", "fp_spill_mask",
                    "mapping_table", "vmap_table", "invoke_stub"}

\* the bytes of the writes of the given kinds (of one class-def: c > 0), in the
\* order they were written
WrittenBytes(what, c) ==
    LET sel == SelectSeq(file_writes,
                         LAMBDA w : w.what \in what /\ (c = 0 \/ w.owner[1] = c))
    IN Flatten([j \in 1..Len(sel) |-> sel[j].bytes])

\* the logical contents of the file in layout order: the descriptors, the class
\* tables, then for each class-def what was written for its methods, followed
\* by its methods table
LogicalContents ==
    WrittenBytes(DescriptorFields, 0) \o WrittenBytes({"methods_offsets"}, 0)
    \o Flatten([c \in 1..Len(oat_methods_) |->
                  WrittenBytes(MethodArtifacts, c) \o WrittenBytes({"method_offsets"}, c)])

\* the checksum field of the header bytes in the file
ChecksumInFile == << FileByteAt(8), FileByteAt(9), FileByteAt(10), FileByteAt(11) >>

\* C7: the checksum in the header bytes written by Write is the accumulator's
\* value at the end of the layout pass, and is what streaming the logical
\* contents of the emitted file, in layout order, through a fresh accumulator gives.
C7_ChecksumOfEmittedContents ==
    WriteSucceeded =>
        /\ ChecksumInFile = ChecksumBytes(oat_header_.checksum)
        /\ ChecksumInFile = ChecksumBytes(adler32(InitialChecksum, LogicalContents))

\* the same, for the inputs in which every method has a compiled method, in a
\* build where an update from an empty vector leaves the checksum as it is
ChecksumOfEmittedContentsIfAllCompiled ==
    (empty_update = "unchanged" /\ \A id \in MethodIds : IsCompiled(id)) =>
        C7_ChecksumOfEmittedContents

\* the dedup steps the emit pass took for buffers of length zero
EmptySteps == {j \in 1..Len(emit_log) : emit_log[j].size = 0}

\* C8: a code, mapping table, vmap table or invoke stub of length zero has
\* offset 0 in the MethodLayout, whether or not the buffer was seen before, and
\* the emit pass writes no byte for it and leaves the file position where it was.
C8_EmptyArtifactsAbsent ==
    /\ LayoutDone =>
           \A id \in MethodIds :
               /\ (IsCompiled(id) /\ CodeBytes(CodeOf(id)) = << >>) =>
                      MethodLayout(id).code_offset = 0
               /\ (IsCompiled(id) /\ MappingBytes(MappingTableOf(id)) = << >>) =>
                      MethodLayout(id).mapping_table_offset = 0
               /\ (IsCompiled(id) /\ VmapBytes(VmapTableOf(id)) = << >>) =>
                      MethodLayout(id).vmap_table_offset = 0
               /\ (HasInvokeStub(id) /\ CodeBytes(InvokeStubOf(id)) = << >>) =>
                      MethodLayout(id).invoke_stub_offset = 0
    /\ \A j \in EmptySteps :
           /\ emit_log[j].stored = 0
           /\ emit_log[j].after = emit_log[j].before
           /\ \A w \in 1..Len(file_writes) :
                  (file_writes[w].owner = emit_log[j].owner
                       /\ file_writes[w].what = emit_log[j].what) =>
                      file_writes[w].bytes = << >>

\* Write succeeded after the emit pass came twice to the same empty buffer
C8_EmptyBufferSeenTwice ==
    /\ WriteSucceeded
    /\ \E j, l \in EmptySteps :
           /\ j < l
           /\ emit_log[j].buf = emit_log[l].buf
           /\ emit_log[l].after = emit_log[l].before
           /\ emit_log[l].stored = 0

\* C9: for a method without a compiled method (an abstract method) the layout
\* pass stores 0 in code_offset, frame_size_in_bytes, core_spill_mask,
\* fp_spill_mask, mapping_table_offset and vmap_table_offset.
C9_AbstractMethodAllZero ==
    LayoutDone =>
        \A id \in MethodIds :
            ~IsCompiled(id) =>
                /\ MethodLayout(id).code_offset = 0
                /\ MethodLayout(id).frame_size_in_bytes = 0
                /\ MethodLayout(id).core_spill_mask = 0
                /\ MethodLayout(id).fp_spill_mask = 0
                /\ MethodLayout(id).mapping_table_offset = 0
                /\ MethodLayout(id).vmap_table_offset = 0

\* the byte range [from, from + size) lies in the executable section of the file
InExecutableSection(from, size) ==
    from >= oat_header_.executable_offset /\ from + size <= FileSize

\* C10: after a successful Write, every non-zero offset of every MethodLayout
\* starts a byte range (from the offset, less CodeDelta for code, as long as
\* the buffer) that lies at or after Header.executable_offset and ends within
\* the file.
C10_OffsetsInsideFile ==
    WriteSucceeded =>
        \A id \in MethodIds :
            /\ (IsCompiled(id) /\ MethodLayout(id).code_offset # 0) =>
                   InExecutableSection(
                       MethodLayout(id).code_offset - CodeDeltaFor(instruction_set),
                       Len(CodeBytes(CodeOf(id))))
            /\ (IsCompiled(id) /\ MethodLayout(id).mapping_table_offset # 0) =>
                   InExecutableSection(MethodLayout(id).mapping_table_offset,
                                       Len(MappingBytes(MappingTableOf(id))))
            /\ (IsCompiled(id) /\ MethodLayout(id).vmap_table_offset # 0) =>
                   InExecutableSection(MethodLayout(id).vmap_table_offset,
                                       Len(VmapBytes(VmapTableOf(id))))
            /\ (HasInvokeStub(id) /\ MethodLayout(id).invoke_stub_offset # 0) =>
                   InExecutableSection(MethodLayout(id).invoke_stub_offset,
                                       Len(CodeBytes(InvokeStubOf(id))))

\* Write succeeded and the last bytes of the file are those of an invoke stub
\* that a method's invoke_stub_offset points at
C10_StubEndsTheFile ==
    /\ WriteSucceeded
    /\ \E id \in MethodIds :
           /\ HasInvokeStub(id) /\ IsCompiled(id)
           /\ MethodLayout(id).code_offset # 0
           /\ MethodLayout(id).invoke_stub_offset # 0
           /\ MethodLayout(id).invoke_stub_offset + Len(CodeBytes(InvokeStubOf(id))) = FileSize

\* C11: after layout, for every method, a non-zero invoke_stub_offset is a
\* multiple of the instruction alignment, and a non-zero code_offset less the
\* CodeDelta is a multiple of the code alignment, also when the offset comes
\* from a hit in code_offsets_.
C11_OffsetsAligned ==
    LayoutDone =>
        \A id \in MethodIds :
            /\ (HasInvokeStub(id) /\ MethodLayout(id).invoke_stub_offset # 0) =>
                   MethodLayout(id).invoke_stub_offset % kArmAlignment = 0
            /\ (IsCompiled(id) /\ MethodLayout(id).code_offset # 0) =>
                   (MethodLayout(id).code_offset - CodeDeltaFor(instruction_set))
                       % kArmAlignment = 0

\* the same, for kArm alone
OffsetsAlignedOnArm == instruction_set = kArm => C11_OffsetsAligned

\* C12: when the inputs have no method at all, after a successful Write the size
\* of the file is Header.executable_offset (the padding is part of the file).
C12_NoMethodsFileEndsAtExecutableOffset ==
    (WriteSucceeded /\ MethodIds = {}) => FileSize = oat_header_.executable_offset

\* what holds instead: without methods the file ends with the last table
NoMethodsFileEndsAtTablesEnd ==
    (WriteSucceeded /\ MethodIds = {}) => FileSize = TablesEnd

\* the constructor is past InitOatMethods: the tables have their final sizes
TablesSized == pc \in {"InitOatCode", "InitOatCodeDexFiles", "Write"}

\* C13: after InitOatMethods and up to the end of construction there are as many
\* descriptors and class tables as inputs, class table n has one entry per
\* class-def of input n, and the methods table of every class-def has one
\* entry per direct and per virtual method, none for a class-def without class
\* data; so the CHECK_EQs of the constructor and of InitOatCodeClassDef hold.
C13_TableSizesMatchInputs ==
    TablesSized =>
        /\ Len(oat_dex_files_) = Len(dex_files_)
        /\ Len(oat_classes_) = Len(dex_files_)
        /\ \A n \in 1..Len(dex_files_) :
               Len(oat_classes_[n]) = Len(dex_files_[n].class_defs)
        /\ Len(oat_methods_) = Len(ClassDefsInOrder)
        /\ \A c \in 1..Len(ClassDefsInOrder) :
               Len(oat_methods_[c]) =
                   (IF ClassDefsInOrder[c].has_class_data
                    THEN Len(ClassDefsInOrder[c].direct_methods)
                         + Len(ClassDefsInOrder[c].virtual_methods)
                    ELSE 0)

\* construction is over for a class-def with direct and virtual methods
C13_DirectAndVirtualSized ==
    /\ LayoutDone
    /\ \E c \in 1..Len(ClassDefsInOrder) :
           /\ ClassDefsInOrder[c].has_class_data
           /\ Len(ClassDefsInOrder[c].direct_methods) > 0
           /\ Len(ClassDefsInOrder[c].virtual_methods) > 0
           /\ Len(oat_methods_[c]) = NumMethods(ClassDefsInOrder[c])

\* construction is over for two inputs, one of them with a class-def without
\* class data
EmptyClassDefSized ==
    /\ LayoutDone
    /\ Len(oat_classes_) = 2
    /\ \E c \in 1..Len(ClassDefsInOrder) :
           ~ClassDefsInOrder[c].has_class_data /\ Len(oat_methods_[c]) = 0

\* the k-th method of a class-def in iterator order, and the methods a pass has
\* handled so far
DirectThenVirtual(id) ==
    LET class_def == ClassDefsInOrder[id[1]]
        nd == Len(class_def.direct_methods)
    IN IF id[2] <= nd THEN class_def.direct_methods[id[2]]
       ELSE class_def.virtual_methods[id[2] - nd]
MethodsBefore(id) == {j \in MethodIds : MethodBefore(j, id)}
LaidOut == {id \in MethodIds : MethodLayout(id) # ZeroMethodOffsets}
Emitted ==
    {id \in MethodIds :
       \E n \in 1..Len(file_writes) :
          file_writes[n].what = "frame_size_in_bytes" /\ file_writes[n].owner = id}
StoredField(id, what) ==
    CASE what = "code" -> MethodLayout(id).code_offset
      [] what = "mapping_table" -> MethodLayout(id).mapping_table_offset
      [] what = "vmap_table" -> MethodLayout(id).vmap_table_offset
      [] what = "invoke_stub" -> MethodLayout(id).invoke_stub_offset

\* a step of the layout pass that handles a method fills the slot of the first
\* method not yet handled, which was still zero, with that method's layout, and
\* no other slot; the pass ends with every slot filled. A step in which the
\* process aborts, which may have moved the cursor before, fills no slot
LayoutStepInOrder ==
    /\ (pc = "InitOatCodeDexFiles" /\ offset' # offset /\ pc' = "aborted") =>
           oat_methods_' = oat_methods_
    /\ (pc = "InitOatCodeDexFiles" /\ offset' # offset /\ pc' # "aborted") =>
           \E id \in MethodIds :
              /\ LaidOut = MethodsBefore(id)
              /\ oat_methods_' = [oat_methods_ EXCEPT
                                    ![id[1]][id[2]] = oat_methods_'[id[1]][id[2]]]
              /\ oat_methods_'[id[1]][id[2]] # ZeroMethodOffsets
              /\ oat_methods_'[id[1]][id[2]].frame_size_in_bytes =
                     LayoutFrameWords(DirectThenVirtual(id).compiled_method)[1]
    /\ (pc = "InitOatCodeDexFiles" /\ pc' = "Write") => LaidOut = MethodIds

\* a step of the emit pass that writes does so for the first method not yet
\* handled, with the offsets of that method's slot; a Write that returns true
\* has handled every method
EmitStepInOrder ==
    /\ (pc = "WriteCodeDexFiles" /\ file_writes' # file_writes) =>
           \E id \in MethodIds :
              /\ Emitted = MethodsBefore(id)
              /\ \A n \in (Len(file_writes) + 1)..Len(file_writes') :
                     file_writes'[n].owner = id
              /\ \A n \in (Len(emit_log) + 1)..Len(emit_log') :
                     /\ emit_log'[n].owner = id
                     /\ emit_log'[n].stored = StoredField(id, emit_log'[n].what)
    /\ (pc = "WriteCodeDexFiles" /\ pc' = "done" /\ result' = "true") =>
           Emitted = MethodIds

\* C14: both passes visit the methods in the same order (inputs in order, the
\* class-defs of each in order, the direct methods of each and then its virtual
\* methods); the k-th method visited in a class-def writes, in the layout pass,
\* and reads, in the emit pass, slot k of the class-def's methods table; the
\* layout pass fills every slot exactly once.
C14_SameOrderInBothPasses == [][LayoutStepInOrder /\ EmitStepInOrder]_vars

\* Write returned true for a class-def with a direct and a virtual method
C14_DirectAndVirtualEmitted ==
    /\ WriteSucceeded
    /\ Emitted = MethodIds
    /\ \E c \in 1..Len(ClassDefsInOrder) :
           /\ Len(ClassDefsInOrder[c].direct_methods) > 0
           /\ Len(ClassDefsInOrder[c].virtual_methods) > 0

\* Write returned true for two inputs with a method each
TwoInputsEmitted ==
    /\ WriteSucceeded
    /\ Emitted = MethodIds
    /\ Len(dex_files_) = 2
    /\ \A n \in 1..2 : Len(dex_files_[n].class_defs) = 1
                       /\ NumMethods(dex_files_[n].class_defs[1]) = 1

\* the writes of an artifact's buffer made for an earlier method through the
\* same dedup map (code and invoke stubs share one)
SameMap(what1, what2) ==
    \/ what1 = what2
    \/ {what1, what2} \subseteq {"code", "invoke_stub"}
WritesForEarlier(e) ==
    {n \in 1..Len(file_writes) :
       /\ file_writes[n].buf = e.buf
       /\ SameMap(file_writes[n].what, e.what)
       /\ MethodBefore(file_writes[n].owner, e.owner)}
WritesFor(e) ==
    {n \in 1..Len(file_writes) :
       file_writes[n].owner = e.owner /\ file_writes[n].what = e.what}
StartOfStored(e) ==
    e.stored - (IF e.what = "code" THEN CodeDeltaFor(instruction_set) ELSE 0)

\* C15: in the emit pass, for an artifact whose non-empty buffer was written for
\* an earlier method, nothing is written and the file position stays where it
\* was, and the range written before starts at the offset stored in this
\* method's MethodLayout (less the CodeDelta for code).
C15_HitWritesNothing ==
    \A n \in 1..Len(emit_log) :
       LET e == emit_log[n]
       IN (e.size > 0 /\ WritesForEarlier(e) # {}) =>
              /\ e.after = e.before
              /\ WritesFor(e) = {}
              /\ \E w \in WritesForEarlier(e) : file_writes[w].pos = StartOfStored(e)

\* the same, for kArm alone
HitWritesNothingOnArm == instruction_set = kArm => C15_HitWritesNothing

\* nothing is written on a hit and the position stays, on either instruction set
HitLeavesFileAlone ==
    \A n \in 1..Len(emit_log) :
       LET e == emit_log[n]
       IN (e.size > 0 /\ WritesForEarlier(e) # {}) =>
              e.after = e.before /\ WritesFor(e) = {}

\* the emit pass from the file's start position with no failing call: the
\* header, the tables, the seek to the executable section and every method
MethodIdsInOrder ==
    Flatten([c \in 1..Len(ClassDefsInOrder) |->
               [k \in 1..NumMethods(ClassDefsInOrder[c]) |-> << c, k >>]])
RECURSIVE EmitMethods(_, _)
EmitMethods(io, ids) ==
    IF ids = << >> THEN io
    ELSE EmitMethods(WriteCodeMethodIo(io, MethodAt(Head(ids)), MethodLayout(Head(ids)),
                                       Head(ids), instruction_set),
                     Tail(ids))
UnfailingRun(start) ==
    LET header == WriteFully(IoState(start, << >>, 0, 0), OatHeaderBytes(oat_header_),
                             "oat_header", << >>, NULL)
    IN EmitMethods(WriteCodeIo(WriteTablesIo(header)), MethodIdsInOrder)
StartOfRun == IF file_writes = << >> THEN 0 ELSE file_writes[1].pos
IsPrefix(s, t) == Len(s) <= Len(t) /\ SubSeq(t, 1, Len(s)) = s

\* C16: Write returns true if and only if no write and no seek of the emit pass
\* failed; a failure ends Write at once, so that the writes made are those the
\* pass makes up to the failing call and no more, and Write returns false.
C16_TrueIffNothingFailed ==
    /\ io_failed => pc = "done"
    /\ pc = "done" =>
           /\ result = "true" <=> ~io_failed
           /\ result = "false" <=> io_failed
           /\ IsPrefix(file_writes, UnfailingRun(StartOfRun).writes)
           /\ ~io_failed => file_writes = UnfailingRun(StartOfRun).writes

\* Write returned false after a frame word of the second method could not be
\* written
C16_FailedInSecondMethod ==
    /\ pc = "done"
    /\ result = "false"
    /\ io_failed
    /\ \E n \in 1..Len(file_writes) :
           file_writes[n].what = "frame_size_in_bytes" /\ file_writes[n].owner = << 1, 2 >>
    /\ \A n \in 1..Len(file_writes) :
           ~(file_writes[n].what = "fp_spill_mask" /\ file_writes[n].owner = << 1, 2 >>)

\* Write returned false because a table could not be written
FailedInTables ==
    /\ pc = "done"
    /\ result = "false"
    /\ \E n \in 1..Len(file_writes) : file_writes[n].what = "dex_file_checksum"
    /\ \A n \in 1..Len(file_writes) : file_writes[n].what # "method_offsets"
    /\ Len(oat_methods_) > 0

\* WriteCode is about to seek over the padding and will not land on the
\* executable offset; nothing of a method is in the file
SeekMissesExecutableOffset ==
    /\ pc = "WriteCode"
    /\ file_pos + executable_offset_padding_length_ # oat_header_.executable_offset
MethodArtifactKinds ==
    {"code", "frame_size_in_bytes", "core_spill_mask", "fp_spill_mask",
     "mapping_table", "vmap_table", "invoke_stub"}
NothingOfAMethodWritten ==
    \A n \in 1..Len(file_writes) : file_writes[n].what \notin MethodArtifactKinds

\* C17: when the seek over the padding, after the tables, lands elsewhere than
\* on Header.executable_offset, Write returns false at once and no method code,
\* frame word, mapping table, vmap table or invoke stub is written.
C17_MissedSeekFailsWrite ==
    [][SeekMissesExecutableOffset =>
           /\ pc' = "done"
           /\ result' = "false"
           /\ file_writes' = file_writes
           /\ NothingOfAMethodWritten']_vars

\* Write started at position 4 with methods to emit, the tables were written and
\* the seek landed 4 bytes after the executable offset
C17_SeekLandedPastExecutableOffset ==
    /\ pc = "done"
    /\ result = "false"
    /\ MethodIds # {}
    /\ StartOfRun = 4
    /\ \E n \in 1..Len(file_writes) : file_writes[n].what = "method_offsets"
    /\ file_pos = oat_header_.executable_offset + 4
    /\ NothingOfAMethodWritten

\* what the layout pass stored: the header, the descriptors, the class tables,
\* the MethodLayouts, the padding length and the three dedup maps
LayoutState ==
    << oat_header_, oat_dex_files_, oat_classes_, oat_methods_,
       executable_offset_padding_length_, code_offsets_, mapping_table_offsets_,
       vmap_table_offsets_ >>
InEmitPass == pc \in {"Write", "WriteTables", "WriteCode", "WriteCodeDexFiles", "done"}

\* C18: no step of Write, whether it succeeds or fails, changes the header's
\* checksum and executable offset, a descriptor, a class table, a MethodLayout,
\* the padding length or one of the three dedup maps.
C18_EmitLeavesLayoutAlone == [][InEmitPass => LayoutState' = LayoutState]_vars

\* Write has returned, true or false, after it emitted a method whose buffers are
\* in the dedup maps
C18_WriteReturnedWithMapsFilled ==
    /\ pc = "done"
    /\ DOMAIN code_offsets_ # {}
    /\ DOMAIN mapping_table_offsets_ # {}
    /\ \E n \in 1..Len(file_writes) : file_writes[n].what = "code"

\* the three frame words the emit pass wrote inline for a method
FrameWordKinds == << "frame_size_in_bytes", "core_spill_mask", "fp_spill_mask" >>
FrameWordWritten(id, k) ==
    LET n == CHOOSE m \in 1..Len(file_writes) :
                 file_writes[m].what = FrameWordKinds[k] /\ file_writes[m].owner = id
    IN file_writes[n].bytes
StoredFrameWords(id) ==
    << MethodLayout(id).frame_size_in_bytes, MethodLayout(id).core_spill_mask,
       MethodLayout(id).fp_spill_mask >>

\* C19: after a Write that returned true, for every method, compiled or not,
\* the three frame words written inline are the three values the layout pass
\* stored in its MethodLayout and fed to the checksum.
C19_FrameWordsSameInBothPasses ==
    WriteSucceeded =>
        \A id \in MethodIds :
           /\ StoredFrameWords(id) = LayoutFrameWords(MethodAt(id).compiled_method)
           /\ \A k \in 1..3 : FrameWordWritten(id, k) = U32Bytes(StoredFrameWords(id)[k])

\* the same, for the methods that have a compiled method
FrameWordsSameForCompiledMethods ==
    WriteSucceeded =>
        \A id \in MethodIds :
           IsCompiled(id) =>
               /\ StoredFrameWords(id) = LayoutFrameWords(MethodAt(id).compiled_method)
               /\ \A k \in 1..3 : FrameWordWritten(id, k) = U32Bytes(StoredFrameWords(id)[k])

\* the bytes of frame words the emit pass wrote for a method
FrameWordBytes(id) ==
    SumSeq([k \in 1..3 |-> Len(FrameWordWritten(id, k))])
FrameWordsOnce(id) ==
    \A k \in 1..3 :
       Cardinality({n \in 1..Len(file_writes) :
                      file_writes[n].what = FrameWordKinds[k]
                      /\ file_writes[n].owner = id}) = 1

\* a step of the layout pass that lays out a method (the process does not abort
\* in it) moves the cursor on by at least the 12 bytes of its frame words, and a step of the emit pass that does not fail
\* moves the file position and the tracked offset on by at least 12 bytes and
\* writes the three frame words, 12 bytes, for that method; a Write that returns
\* true leaves the file position where the layout cursor ended
LayoutMethodAdvances ==
    (pc = "InitOatCodeDexFiles" /\ HasMethod /\ pc' # "aborted") =>
        /\ offset' >= offset + 3 * SizeOfWord
        /\ (Method.compiled_method = NULL /\ Method.invoke_stub = NULL) =>
               offset' = offset + 3 * SizeOfWord
EmitMethodAdvances ==
    (pc = "WriteCodeDexFiles" /\ HasMethod /\ ~io_failed') =>
        /\ file_pos' >= file_pos + 3 * SizeOfWord
        /\ code_offset' >= code_offset + 3 * SizeOfWord
        /\ LET id == << oat_class_index, class_def_method_index + 1 >>
           IN \A k \in 1..3 :
                 \E n \in (Len(file_writes) + 1)..Len(file_writes') :
                    /\ file_writes'[n].what = FrameWordKinds[k]
                    /\ file_writes'[n].owner = id
                    /\ Len(file_writes'[n].bytes) = SizeOfWord

\* C20: every method, with or without compiled method and whether or not its
\* code is a dedup hit, takes exactly 12 bytes of frame words in the layout
\* pass and in the emit pass, so that the layout cursor and the file position
\* are strictly greater after a method than before it.
C20_TwelveBytesOfFrameWordsPerMethod ==
    [][/\ LayoutMethodAdvances
       /\ EmitMethodAdvances
       /\ (pc = "WriteCodeDexFiles" /\ pc' = "done" /\ result' = "true") =>
              /\ \A id \in MethodIds :
                     FrameWordsOnce(id) /\ FrameWordBytes(id) = 3 * SizeOfWord
              /\ MethodIds # {} => file_pos = offset]_vars

\* Write returned true after it emitted a method whose code was a dedup hit and
\* one without compiled method, each with its three frame words
C20_FrameWordsDespiteHit ==
    /\ WriteSucceeded
    /\ \E n \in 1..Len(emit_log) :
           /\ emit_log[n].what = "code"
           /\ emit_log[n].hit
           /\ emit_log[n].size > 0
           /\ FrameWordsOnce(emit_log[n].owner)
           /\ FrameWordBytes(emit_log[n].owner) = 3 * SizeOfWord

\* Write returned true after it emitted a method without compiled method and
\* without invoke stub: 12 bytes in all
UncompiledMethodTakesTwelveBytes ==
    /\ WriteSucceeded
    /\ \E id \in MethodIds :
           /\ ~IsCompiled(id)
           /\ ~HasInvokeStub(id)
           /\ FrameWordsOnce(id)
           /\ FrameWordBytes(id) = 3 * SizeOfWord

\* the checksum after the descriptors have been fed to it in order, each once,
\* and the bytes of the class tables one after the other
DescriptorsFed(checksum, oat_dex_files) ==
    UpdateChecksumFields(checksum,
        Flatten([n \in 1..Len(oat_dex_files) |-> OatDexFileFields(oat_dex_files[n])]))
ClassTablesStream(oat_classes) ==
    Flatten([n \in 1..Len(oat_classes) |-> OatClassesBytes(oat_classes[n])])
\* the checksum after an update from each class table from the n-th on, in order
RECURSIVE ClassTablesUpdated(_, _, _)
ClassTablesUpdated(checksum, oat_classes, n) ==
    IF n > Len(oat_classes) THEN checksum
    ELSE ClassTablesUpdated(OatClassesUpdateChecksum(oat_classes[n], checksum),
                            oat_classes, n + 1)
\* every update that has no bytes to feed leaves the checksum as it is
EmptyUpdateKeeps == empty_update = "unchanged"
TableKinds ==
    {"dex_file_location_size", "dex_file_location_data", "dex_file_checksum",
     "classes_offset", "methods_offsets", "method_offsets"}
BytesOfTableWrite(w) ==
    CASE w.what = "dex_file_location_size" -> OatDexFileFields(oat_dex_files_[w.owner[1]])[1]
      [] w.what = "dex_file_location_data" -> OatDexFileFields(oat_dex_files_[w.owner[1]])[2]
      [] w.what = "dex_file_checksum" -> OatDexFileFields(oat_dex_files_[w.owner[1]])[3]
      [] w.what = "classes_offset" -> OatDexFileFields(oat_dex_files_[w.owner[1]])[4]
      [] w.what = "methods_offsets" -> OatClassesBytes(oat_classes_[w.owner[1]])
      [] w.what = "method_offsets" -> OatMethodsBytes(oat_methods_[w.owner[1]])

\* the steps that feed structural records to the checksum feed them complete:
\* InitOatClasses every descriptor with its classes_offset, InitOatMethods every
\* class table with its methods-table offsets, and the end of a class-def in
\* InitOatCodeDexFile that class-def's methods table with every slot filled.
\* The checksum after the step is the one the updates from these records
\* give, one update for each record in order; it is the checksum of their
\* bytes one after the other where an update without bytes leaves the
\* checksum. A step in which the process aborts has fed no record further
RecordsFedComplete ==
    /\ pc = "InitOatClasses" =>
           /\ oat_header_'.checksum = DescriptorsFed(oat_header_.checksum, oat_dex_files_')
           /\ \A n \in 1..Len(oat_dex_files_') :
                  oat_dex_files_'[n].classes_offset >= SizeOfOatHeader
    /\ (pc = "InitOatMethods" /\ pc' # "aborted") =>
           /\ oat_header_'.checksum =
                  ClassTablesUpdated(oat_header_.checksum, oat_classes_', 1)
           /\ EmptyUpdateKeeps =>
                  oat_header_'.checksum =
                      UpdateChecksum(oat_header_.checksum, ClassTablesStream(oat_classes_'))
           /\ Len(oat_classes_') = Len(dex_files_)
           /\ \A n \in 1..Len(oat_classes_') : \A c \in 1..Len(oat_classes_'[n]) :
                  oat_classes_'[n][c] >= SizeOfOatHeader
    /\ (pc = "InitOatCodeDexFiles" /\ class_def_index' # class_def_index /\ i' = i) =>
           /\ oat_header_'.checksum =
                  OatMethodsUpdateChecksum(oat_methods_[oat_class_index],
                                           oat_header_.checksum)
           /\ EmptyUpdateKeeps =>
                  oat_header_'.checksum =
                      UpdateChecksum(oat_header_.checksum,
                                     OatMethodsBytes(oat_methods_[oat_class_index]))
           /\ \A k \in 1..Len(oat_methods_[oat_class_index]) :
                  oat_methods_[oat_class_index][k] # ZeroMethodOffsets
           /\ oat_class_index' = oat_class_index + 1

\* a record that has been fed keeps its value, the checksum changes in no other
\* step than these and the steps for a method, and the tables Write writes are
\* the records as they are
RecordsFedOnce ==
    /\ pc \notin {"InitOatHeader", "InitOatDexFiles", "InitOatClasses"} =>
           oat_dex_files_' = oat_dex_files_
    /\ pc \notin {"InitOatHeader", "InitOatDexFiles", "InitOatClasses", "InitOatMethods"} =>
           oat_classes_' = oat_classes_
    /\ pc = "InitOatCodeDexFiles" =>
           \A c \in 1..(oat_class_index - 1) : oat_methods_'[c] = oat_methods_[c]
    /\ (\/ pc \in {"InitOatDexFiles", "InitOatCode"}
        \/ (pc = "InitOatCodeDexFiles" /\ ~HasClassDef)
        \/ (pc = "InitOatCodeDexFiles" /\ ~HasMethod /\ pc' = "aborted")) =>
           oat_header_'.checksum = oat_header_.checksum
    /\ \A n \in 1..Len(file_writes') :
           file_writes'[n].what \in TableKinds =>
               file_writes'[n].bytes = BytesOfTableWrite(file_writes'[n])

\* C21: during layout every descriptor, class table and methods table is fed to
\* the checksum exactly once, and only with the field values that are later
\* written: a descriptor after its classes_offset is set, a class table after
\* all its methods-table offsets are set, a methods table after the MethodLayout
\* of each of its methods is stored; the descriptors come before the class
\* tables and these before any method content.
C21_RecordsChecksummedComplete == [][RecordsFedComplete /\ RecordsFedOnce]_vars

\* the tables of two inputs, with a methods table of two entries among them,
\* were checksummed and then written
C21_TwoInputsChecksummedAndWritten ==
    /\ pc = "WriteCode"
    /\ Len(oat_dex_files_) = 2
    /\ oat_dex_files_[2].classes_offset > oat_dex_files_[1].classes_offset
    /\ \E c \in 1..Len(oat_methods_) : Len(oat_methods_[c]) = 2
    /\ \E n \in 1..Len(file_writes) : file_writes[n].what = "method_offsets"

\* a map keeps every entry it has, and gains the given keys and no others
MapKeepsEntries(before, after) ==
    \A k \in DOMAIN before : k \in DOMAIN after /\ after[k] = before[k]
MapGains(before, after, keys) ==
    MapKeepsEntries(before, after) /\ DOMAIN after = DOMAIN before \cup keys
OffsetOrZero(bytes, where) == IF Len(bytes) = 0 THEN 0 ELSE where
IfNew(new, bytes) == IF new THEN << bytes >> ELSE << >>
\* the checksum after the update from a buffer that is new to its map
UpdatedIfNew(checksum, new, owns, bytes) ==
    IF new THEN UpdateChecksumVector(checksum, owns, bytes) ELSE checksum
SizeIfNew(new, bytes) == IF new THEN Len(bytes) ELSE 0

\* what a step of the layout pass for a method does with the three maps, the
\* cursor and the checksum: a buffer that is in its map is given the offset the
\* map holds and adds nothing to the cursor or the checksum; a buffer that is
\* not is entered with the offset the cursor gives it, moves the cursor on by
\* its size and is checksummed. The checksum after the step is the one the
\* updates from the new buffers and the frame words give, in the order code,
\* frame words, mapping table, vmap table, invoke stub; it is the checksum of
\* their bytes one after the other where an update without bytes leaves the
\* checksum
MethodStepDedups ==
    LET id == << oat_class_index, class_def_method_index + 1 >>
        method == DirectThenVirtual(id)
        slot == oat_methods_'[id[1]][id[2]]
        compiled == method.compiled_method # NULL
        stubbed == method.invoke_stub # NULL
        cm == CompiledMethods[method.compiled_method]
        code == IF compiled THEN CodeBytes(cm.code) ELSE << >>
        mapping == IF compiled THEN MappingBytes(cm.mapping_table) ELSE << >>
        vmap == IF compiled THEN VmapBytes(cm.vmap_table) ELSE << >>
        stub == IF stubbed THEN CodeBytes(method.invoke_stub) ELSE << >>
        code_new == compiled /\ cm.code \notin DOMAIN code_offsets_
        mapping_new == compiled /\ cm.mapping_table \notin DOMAIN mapping_table_offsets_
        vmap_new == compiled /\ cm.vmap_table \notin DOMAIN vmap_table_offsets_
        stub_new == /\ stubbed
                    /\ method.invoke_stub \notin DOMAIN code_offsets_
                    /\ ~(compiled /\ cm.code = method.invoke_stub)
        at_code == IF compiled THEN RoundUp(offset, kArmAlignment) ELSE offset
        at_frame == at_code + SizeIfNew(code_new, code)
        at_mapping == at_frame + 3 * SizeOfWord
        at_vmap == at_mapping + SizeIfNew(mapping_new, mapping)
        after_vmap == at_vmap + SizeIfNew(vmap_new, vmap)
        at_stub == IF stubbed THEN RoundUp(after_vmap, kArmAlignment) ELSE after_vmap
    IN /\ MapGains(code_offsets_, code_offsets_',
                   (IF compiled THEN {cm.code} ELSE {})
                       \cup (IF stubbed THEN {method.invoke_stub} ELSE {}))
       /\ MapGains(mapping_table_offsets_, mapping_table_offsets_',
                   IF compiled THEN {cm.mapping_table} ELSE {})
       /\ MapGains(vmap_table_offsets_, vmap_table_offsets_',
                   IF compiled THEN {cm.vmap_table} ELSE {})
       /\ compiled =>
              /\ slot.code_offset = code_offsets_'[cm.code]
              /\ slot.mapping_table_offset = mapping_table_offsets_'[cm.mapping_table]
              /\ slot.vmap_table_offset = vmap_table_offsets_'[cm.vmap_table]
              /\ code_new =>
                     slot.code_offset =
                         OffsetOrZero(code, at_code + CodeDeltaFor(instruction_set))
              /\ mapping_new => slot.mapping_table_offset = OffsetOrZero(mapping, at_mapping)
              /\ vmap_new => slot.vmap_table_offset = OffsetOrZero(vmap, at_vmap)
       /\ stubbed =>
              /\ slot.invoke_stub_offset = code_offsets_'[method.invoke_stub]
              /\ stub_new => slot.invoke_stub_offset = OffsetOrZero(stub, at_stub)
       /\ offset' = at_stub + SizeIfNew(stub_new, stub)
       /\ \E owns \in OwnsStorageChoices(method) :
              oat_header_'.checksum =
                  UpdatedIfNew(
                      UpdatedIfNew(
                          UpdatedIfNew(
                              UpdateChecksumFields(
                                  UpdatedIfNew(oat_header_.checksum, code_new,
                                               compiled /\ cm.code \in owns, code),
                                  << U32Bytes(slot.frame_size_in_bytes),
                                     U32Bytes(slot.core_spill_mask),
                                     U32Bytes(slot.fp_spill_mask) >>),
                              mapping_new, compiled /\ cm.mapping_table \in owns, mapping),
                          vmap_new, compiled /\ cm.vmap_table \in owns, vmap),
                      stub_new, stubbed /\ method.invoke_stub \in owns, stub)
       /\ EmptyUpdateKeeps =>
              oat_header_'.checksum =
                  UpdateChecksumFields(oat_header_.checksum,
                      IfNew(code_new, code)
                      \o << U32Bytes(slot.frame_size_in_bytes),
                            U32Bytes(slot.core_spill_mask),
                            U32Bytes(slot.fp_spill_mask) >>
                      \o IfNew(mapping_new, mapping) \o IfNew(vmap_new, vmap)
                      \o IfNew(stub_new, stub))

\* a step for a method in which the process aborts: the update that aborts is
\* the one from an empty buffer new to its map, which the step has entered;
\* the cursor is not behind where it was and the method's slot is not stored
MethodStepAborts ==
    /\ empty_update = "abort"
    /\ \/ (code_offsets_' # code_offsets_
             /\ \E k \in DOMAIN code_offsets_' \ DOMAIN code_offsets_ :
                    CodeBytes(k) = << >> /\ code_offsets_'[k] = 0)
       \/ (mapping_table_offsets_' # mapping_table_offsets_
             /\ \E k \in DOMAIN mapping_table_offsets_' \ DOMAIN mapping_table_offsets_ :
                    MappingBytes(k) = << >> /\ mapping_table_offsets_'[k] = 0)
       \/ (vmap_table_offsets_' # vmap_table_offsets_
             /\ \E k \in DOMAIN vmap_table_offsets_' \ DOMAIN vmap_table_offsets_ :
                    VmapBytes(k) = << >> /\ vmap_table_offsets_'[k] = 0)
    /\ offset' >= offset
    /\ oat_methods_' = oat_methods_

\* the process aborted in the update from an empty invoke stub that the step
\* had entered in the map of the code, after the frame words of the method
\* were fed
AbortedAfterInsert ==
    /\ pc = "aborted"
    /\ "B0" \in DOMAIN code_offsets_
    /\ code_offsets_["B0"] = 0
    /\ oat_header_.checksum # InitialChecksum
    /\ \E c \in 1..Len(oat_methods_) : \E k \in 1..Len(oat_methods_[c]) :
           oat_methods_[c][k] = ZeroMethodOffsets

\* C22: in the layout pass, for each of the three dedup maps, the first lookup
\* of a buffer enters it with its provisional offset, moves the cursor on by
\* the buffer's size and checksums its bytes; a later lookup gives the first
\* offset and changes neither cursor, checksum nor map; no entry of a map is
\* ever removed or overwritten.
C22_FirstLookupInsertsLaterLookupsHit ==
    [][/\ MapKeepsEntries(code_offsets_, code_offsets_')
       /\ MapKeepsEntries(mapping_table_offsets_, mapping_table_offsets_')
       /\ MapKeepsEntries(vmap_table_offsets_, vmap_table_offsets_')
       /\ (pc = "InitOatCodeDexFiles" /\ HasMethod /\ pc' # "aborted") => MethodStepDedups
       /\ (pc = "InitOatCodeDexFiles" /\ HasMethod /\ pc' = "aborted") => MethodStepAborts]_vars

\* layout is over for two methods with different code and the same non-empty
\* mapping table, which the second found in the map
C22_MappingTableFoundAgain ==
    /\ LayoutDone
    /\ \E id1, id2 \in MethodIds :
           /\ MethodBefore(id1, id2)
           /\ IsCompiled(id1) /\ IsCompiled(id2)
           /\ CodeOf(id1) # CodeOf(id2)
           /\ MappingTableOf(id1) = MappingTableOf(id2)
           /\ MethodLayout(id2).mapping_table_offset = MethodLayout(id1).mapping_table_offset
           /\ MethodLayout(id1).mapping_table_offset # 0

\* layout is over for a method whose invoke stub is the buffer of its code
StubFoundAsCode ==
    /\ LayoutDone
    /\ \E id \in MethodIds :
           /\ IsCompiled(id) /\ HasInvokeStub(id)
           /\ CodeOf(id) = InvokeStubOf(id)
           /\ MethodLayout(id).invoke_stub_offset = MethodLayout(id).code_offset
           /\ MethodLayout(id).code_offset # 0

\* the dedup map an artifact of the emit pass is looked up in
MapOf(what) ==
    CASE what \in {"code", "invoke_stub"} -> code_offsets_
      [] what = "mapping_table" -> mapping_table_offsets_
      [] what = "vmap_table" -> vmap_table_offsets_

\* the offsets stored for a method are those its buffers have in the maps
StoredOffsetsAreMapValues ==
    \A id \in MethodIds :
       /\ IsCompiled(id) =>
              /\ CodeOf(id) \in DOMAIN code_offsets_
              /\ MethodLayout(id).code_offset = code_offsets_[CodeOf(id)]
              /\ MappingTableOf(id) \in DOMAIN mapping_table_offsets_
              /\ MethodLayout(id).mapping_table_offset =
                     mapping_table_offsets_[MappingTableOf(id)]
              /\ VmapTableOf(id) \in DOMAIN vmap_table_offsets_
              /\ MethodLayout(id).vmap_table_offset = vmap_table_offsets_[VmapTableOf(id)]
       /\ HasInvokeStub(id) =>
              /\ InvokeStubOf(id) \in DOMAIN code_offsets_
              /\ MethodLayout(id).invoke_stub_offset = code_offsets_[InvokeStubOf(id)]

\* C23: at the end of layout the offset stored for each artifact of each method
\* is the value the artifact's dedup map holds for its buffer; so in the emit
\* pass no artifact is a hit whose map value differs from the stored offset,
\* and no DCHECK of WriteCodeMethod fails.
C23_StoredOffsetsAgreeWithMaps ==
    /\ LayoutDone => StoredOffsetsAreMapValues
    /\ dchecks
    /\ \A n \in 1..Len(emit_log) :
           emit_log[n].hit =>
               /\ emit_log[n].buf \in DOMAIN MapOf(emit_log[n].what)
               /\ MapOf(emit_log[n].what)[emit_log[n].buf] = emit_log[n].stored

\* Write returned true on kThumb2 after an invoke stub was found in
\* code_offsets_ under the offset of a method's code
C23_StubHitOnThumb ==
    /\ WriteSucceeded
    /\ instruction_set = kThumb2
    /\ \E n \in 1..Len(emit_log) :
           /\ emit_log[n].what = "invoke_stub"
           /\ emit_log[n].hit
           /\ emit_log[n].size > 0
           /\ emit_log[n].stored % kArmAlignment = 1
           /\ code_offsets_[emit_log[n].buf] = emit_log[n].stored

\* InitOatCodeClassDef for the methods k..last of class-def c: each laid out
\* and its OatMethodOffsets stored; st = [ls, method_offsets]. A method whose
\* layout aborts leaves what it did before the call and stores no slot
RECURSIVE LayoutClassDefFrom(_, _, _, _, _)
LayoutClassDefFrom(st, c, k, last, owns_storage) ==
    IF k > last \/ IsAborted(st.ls.checksum) THEN st
    ELSE LET r == LayoutMethod(st.ls, MethodAt(<< c, k >>), instruction_set, owns_storage)
         IN IF IsAborted(r.ls.checksum)
            THEN [st EXCEPT !.ls = r.ls]
            ELSE LayoutClassDefFrom(
                     [ls |-> r.ls,
                      method_offsets |-> [st.method_offsets EXCEPT ![k] = r.method_offsets]],
                     c, k + 1, last, owns_storage)

\* the loops of InitOatCodeDexFiles from class-def c on, up to and including
\* the method upto (all of them when no method has that id): the methods of a
\* class-def laid out, then that class-def's methods table checksummed
RECURSIVE LayoutMethodsFrom(_, _, _, _)
LayoutMethodsFrom(ls, c, upto, owns_storage) ==
    IF c > Len(ClassDefsInOrder) \/ c > upto[1] \/ IsAborted(ls.checksum) THEN ls
    ELSE LET n == NumMethodsOfClassDef(ClassDefsInOrder[c])
             last == IF c = upto[1] /\ upto[2] < n THEN upto[2] ELSE n
             st == LayoutClassDefFrom([ls |-> ls, method_offsets |-> NewOatMethods(n)],
                                      c, 1, last, owns_storage)
         IN IF c = upto[1] /\ upto[2] \in 1..n THEN st.ls
            ELSE LayoutMethodsFrom(
                     [st.ls EXCEPT !.checksum =
                          OatMethodsUpdateChecksum(st.method_offsets, st.ls.checksum)],
                     c + 1, upto, owns_storage)

\* the layout cursor after a method is laid out: InitOatCodeDexFiles from the
\* executable offset, with empty maps, up to and including that method (the
\* cursor is the same whichever vectors own storage)
LayoutCursorAfter(id) ==
    LayoutMethodsFrom([offset |-> oat_header_.executable_offset,
                       checksum |-> InitialChecksum,
                       code_offsets |-> EmptyMap,
                       mapping_table_offsets |-> EmptyMap,
                       vmap_table_offsets |-> EmptyMap],
                      1, id, {}).offset

\* a step of an emit run that started at position 0 and in which no call has
\* failed: after WriteCode the tracked offset and the file position are the
\* executable offset, after a method both are the layout cursor after that
\* method, and what WriteCodeDexFiles returns is the cursor the layout ended with
EmitFollowsLayout ==
    (StartOfRun = 0 /\ ~io_failed') =>
        /\ pc = "WriteCode" =>
               /\ code_offset' = oat_header_.executable_offset
               /\ file_pos' = code_offset'
        /\ (pc = "WriteCodeDexFiles" /\ HasMethod) =>
               /\ file_pos' = code_offset'
               /\ code_offset' =
                      LayoutCursorAfter(<< oat_class_index, class_def_method_index + 1 >>)
        /\ (pc = "WriteCodeDexFiles" /\ pc' = "done") =>
               /\ result' = "true"
               /\ code_offset = offset
               /\ file_pos = offset
        /\ dchecks'

\* C24: in an emit run that starts at file position 0 and in which every write
\* and seek succeeds, the tracked offset equals the file position at every
\* DCHECK_CODE_OFFSET, the position after each method equals the layout cursor
\* after the same method, and the value WriteCodeDexFiles returns equals the
\* cursor InitOatCodeDexFiles returned.
C24_EmitPositionsFollowLayoutCursor == [][EmitFollowsLayout]_vars

\* Write returned true after two methods, one of them with an invoke stub placed
\* after the start of the executable section, and the file position and the
\* tracked offset are the cursor the layout ended with
C24_TwoMethodsEmittedAtLayoutCursor ==
    /\ WriteSucceeded
    /\ StartOfRun = 0
    /\ Cardinality(MethodIds) = 2
    /\ file_pos = offset
    /\ code_offset = offset
    /\ \E id \in MethodIds :
           /\ HasInvokeStub(id)
           /\ MethodLayout(id).invoke_stub_offset > oat_header_.executable_offset
           /\ LayoutCursorAfter(id) < offset

====
